---- MODULE Spec2Model ----
(***************************************************************************)
(* A model of the agentcortex-mcp bridge: a catalogue of schema-validated  *)
(* tools served over MCP, in its two variants.                             *)
(*   Remote: src/src/index.ts    (hosted API over HTTP, lazy resolution of *)
(*           the current project by ensureCurrentProject)                  *)
(*   Direct: src/test-mcp.js, lines 47-716 (the self-hosted build: a       *)
(*           Supabase store and an embedding service)                      *)
(* A tool call is one atomic step: the host serialises the calls of a      *)
(* connection.  The backend is part of the state; each backend request of  *)
(* a call may fail, which the actions draw as the set F of failing         *)
(* requests.                                                               *)
(***************************************************************************)
EXTENDS Integers, Sequences, FiniteSets, TLC

VARIABLES variant, currentProjectId, marker, projects, memories, tasks, last,
          process, request, tracking, calls

vars == <<variant, currentProjectId, marker, projects, memories, tasks, last,
          process, request, tracking, calls>>

(***************************************************************************)
(* Bounds of the model.                                                    *)
(***************************************************************************)
MaxProjects == 2
MaxMemories == 3

(***************************************************************************)
(* Values.  Ids are positions in the backend's tables (1, 2, ...); Null is *)
(* JavaScript's null: no id.  An optional argument that is not given is a  *)
(* field the argument record does not have.                                *)
(***************************************************************************)
Null == 0

Variants == {"Direct", "Remote"}

Has(args, f) == f \in DOMAIN args

StatusEnum == {"pending", "in_progress", "completed", "cancelled"}

PriorityEnum == {"low", "medium", "high"}

ImportanceMin == 1
ImportanceMax == 10
ImportanceDefault == 5
LimitMinimum == 1
DirectLimitMax == 100
RemoteLimitMax == 50
LimitDefault == 10
NameMaxLen == 100
ComplexityMin == 1
ComplexityMax == 10

(***************************************************************************)
(* Text.  A string the code inspects is a sequence of characters; trim()   *)
(* removes the white space and the line terminators at both ends: the       *)
(* characters of ECMAScript's WhiteSpace and LineTerminator productions.    *)
(* A character is written as itself (after the form feed stand U+000B,     *)
(* U+00A0, U+1680 and U+FEFF); the characters from U+2000 on, which a       *)
(* string of this notation cannot hold, are written by their code points:   *)
(* U+2000 to U+200A, U+2028, U+2029, U+202F, U+205F and U+3000.             *)
(***************************************************************************)
WhiteSpace ==
    {" ", "\t", "\n", "\r", "\f", "", " ", " ", "﻿",
     "U+2000", "U+2001", "U+2002", "U+2003", "U+2004", "U+2005", "U+2006", "U+2007",
     "U+2008", "U+2009", "U+200A", "U+2028", "U+2029", "U+202F", "U+205F", "U+3000"}

RECURSIVE TrimLeft(_)
TrimLeft(s) == IF s # <<>> /\ Head(s) \in WhiteSpace THEN TrimLeft(Tail(s)) ELSE s

RECURSIVE TrimRight(_)
TrimRight(s) ==
    IF s # <<>> /\ s[Len(s)] \in WhiteSpace
    THEN TrimRight(SubSeq(s, 1, Len(s) - 1))
    ELSE s

Trim(s) == TrimRight(TrimLeft(s))

(***************************************************************************)
(* The messages of the errors the code raises, word by word.               *)
(***************************************************************************)
MsgNoProjectAvailable ==
    <<"No", "project", "available", ".", "Please", "create", "a", "project",
      "first", "using", "create_project", ".">>

MsgNoCurrentProjectSet ==
    <<"No", "current", "project", "set", ".", "Please", "create", "or", "select",
      "a", "project", "first", "using", "create_project", "or",
      "set_current_project", ".">>

MsgNoCurrentProjectShort ==
    <<"No", "current", "project", "set", ".", "Please", "create", "or", "select",
      "a", "project", "first", ".">>

MsgContentEmpty == <<"Content", "cannot", "be", "empty", ".">>

MsgQueryEmpty == <<"Search", "query", "cannot", "be", "empty", ".">>

MsgNameEmpty == <<"Project", "name", "cannot", "be", "empty", ".">>

MsgNoTargetProject ==
    <<"No", "project", "ID", "provided", "and", "no", "current", "project", "set">>

MsgProjectNotFound == <<"Project", "not", "found">>

MsgNoProjectSelected == <<"No", "project", "currently", "selected">>

MsgNotFound == <<"not", "found">>

\* The message of the error a failed backend request raises.
BackendMsg(req) == <<req, "failed">>

\* `Error: ${error.message}`
ErrorText(msg) == <<"Error", ":">> \o msg

Mentions(text, word) == \E i \in 1..Len(text) : text[i] = word


(***************************************************************************)
(* The arguments the calls are drawn from: for each parameter the values   *)
(* at and around the bounds of its schema.  An id is a position in a table *)
(* (a well-formed id, existing or not); MalformedId is a string that is no *)
(* UUID.                                                                   *)
(***************************************************************************)
MalformedId == 0 - 1

GhostId == 9 + MaxProjects + MaxMemories

LongName == [i \in 1..(NameMaxLen + 1) |-> "x"]

ImportanceSpace == {0, 1, 10, 11}

LimitSpace == {0, 1, 2, 50, 51, 100, 101}

IdSpace(n) == (1..n) \cup {GhostId, MalformedId}

NoArgs == [x \in {} |-> 0]

\* args with the optional field f given as v
With(args, f, v) == [g \in DOMAIN args \cup {f} |-> IF g = f THEN v ELSE args[g]]

\* the set S of argument records, and each of them with the optional field f
\* drawn from V
Opt(S, f, V) == S \cup {With(a, f, v) : a \in S, v \in V}

SetCurrentProjectArgs == {[projectId |-> p] : p \in IdSpace(Len(projects))}

(***************************************************************************)
(* The parameter schemas the tools declare (zod), per variant.  The MCP    *)
(* server validates a call's arguments against the tool's schema before it *)
(* invokes the handler.                                                    *)
(***************************************************************************)
IsUuid(id) == id # MalformedId

\* z.string() in the Remote variant, z.string().uuid() in the Direct one
IdOK(v, id) == v = "Remote" \/ IsUuid(id)

\* z.string().min(1)
NonEmpty(s) == Len(s) >= 1

\* a faulty importance schema, without its upper bound:
\* C5_ImportanceValidatedAndExact does not hold of it
ImportanceUnbounded(x) == ImportanceMin <= x

\* z.number().min(1).max(10)
ImportanceOK(x) == ImportanceMin <= x /\ x <= ImportanceMax

LimitMax(v) == IF v = "Direct" THEN DirectLimitMax ELSE RemoteLimitMax

\* z.number().min(1).max(100) (Direct), z.number().min(1).max(50) (Remote)
LimitOK(v, x) == LimitMinimum <= x /\ x <= LimitMax(v)

\* z.string().min(1).max(100) (Direct), z.string().min(1) (Remote)
NameOK(v, s) == NonEmpty(s) /\ (v = "Direct" => Len(s) <= NameMaxLen)

\* a faulty status schema, accepting any string:
\* C4_SchemaViolationRejected does not hold of it
StatusAny(s) == TRUE

StatusOK(s) == s \in StatusEnum

PriorityOK(p) == p \in PriorityEnum

ComplexityOK(x) == ComplexityMin <= x /\ x <= ComplexityMax

\* a timeRange bound that is no ISO date-time; the others are instants,
\* compared with created_at
MalformedDatetime == 0 - 1

\* timeRange: z.object({ start, end }).optional(); both bounds are
\* z.string().datetime().optional() in the Direct variant and
\* z.string().optional() in the Remote one
TimeRangeOK(v, range) ==
    v = "Direct" => /\ Has(range, "start") => range.start # MalformedDatetime
                    /\ Has(range, "end") => range.end # MalformedDatetime

\* an optional parameter is checked when it is given
OptOK(args, f, ok(_)) == Has(args, f) => ok(args[f])

SchemaOK(v, tool, args) ==
    CASE tool = "store_memory" ->
            NonEmpty(args.content) /\ OptOK(args, "importance", ImportanceOK)
      [] tool = "search_memory" ->
            NonEmpty(args.query) /\ OptOK(args, "limit", LAMBDA x : LimitOK(v, x))
      [] tool = "get_memories" ->
            OptOK(args, "timeRange", LAMBDA range : TimeRangeOK(v, range))
      [] tool = "update_memory_importance" ->
            IdOK(v, args.memoryId) /\ ImportanceOK(args.importance)
      [] tool = "create_project" -> NameOK(v, args.name)
      [] tool = "set_current_project" -> IdOK(v, args.projectId)
      [] tool = "get_project_context" ->
            OptOK(args, "projectId", LAMBDA x : IdOK(v, x))
      [] tool = "create_task" ->
            NonEmpty(args.title) /\ OptOK(args, "priority", PriorityOK)
      [] tool = "list_tasks" ->
            OptOK(args, "status", StatusOK) /\ OptOK(args, "priority", PriorityOK)
      [] tool = "update_task_status" ->
            IdOK(v, args.taskId) /\ StatusOK(args.status)
      [] tool = "break_down_task" ->
            IdOK(v, args.taskId) /\ OptOK(args, "targetComplexity", ComplexityOK)
      [] OTHER -> TRUE

(***************************************************************************)
(* The outcome of a call, kept in last:                                    *)
(*   ok          the handler returned the envelope with its result         *)
(*   error       the handler returned the envelope with an error message   *)
(*   validation  the server rejected the arguments; the handler did not run*)
(*   escaped     the handler threw: the error left it for the protocol     *)
(*               layer                                                     *)
(* text is the envelope's text (or the thrown error's message), reqs the   *)
(* backend requests the call issued, data the ids or rows it returned.     *)
(***************************************************************************)
Respond(tool, args, outcome, text, reqs, data) ==
    /\ last' = [tool |-> tool, args |-> args, outcome |-> outcome, text |-> text,
                reqs |-> reqs, data |-> data]
    /\ UNCHANGED <<process, request, tracking, calls>>

NoCall == [tool |-> "none", args |-> NoArgs, outcome |-> "none", text |-> <<>>,
           reqs |-> <<>>, data |-> <<>>]

\* a schema violation: McpError(InvalidParams), raised before the handler
Reject(tool, args) ==
    /\ Respond(tool, args, "validation", <<"Invalid", "arguments", "for", "tool", tool>>,
               <<>>, <<>>)
    /\ UNCHANGED <<variant, currentProjectId, marker, projects, memories, tasks>>

Dispatch(tool, args, handler) ==
    IF SchemaOK(variant, tool, args) THEN handler ELSE Reject(tool, args)

\* importance || 5
ImportanceOr5(args) ==
    IF Has(args, "importance") /\ args.importance # 0
    THEN args.importance ELSE ImportanceDefault

\* the ids of a table, newest first: .order('created_at', { ascending: false })
RECURSIVE Reverse(_)
Reverse(s) == IF s = <<>> THEN <<>> ELSE Append(Reverse(Tail(s)), Head(s))

Ids(table) == [i \in 1..Len(table) |-> i]

NewestFirst(ids) == Reverse(ids)

(***************************************************************************)
(* The backend.  projects, memories and tasks are its tables in creation   *)
(* order (an id is a row's position, so a later row is a newer one);       *)
(* marker is the hosted API's current-project marker (Remote only).  A     *)
(* request named in F fails: the store returns an error, or the API client *)
(* throws.                                                                 *)
(***************************************************************************)
ProjectExists(pid) == pid \in 1..Len(projects)

MemoryExists(mid) == mid \in 1..Len(memories)

TaskExists(tid) == tid \in 1..Len(tasks)

ProjectRow(name) == [name |-> name]

\* type is the memory_type column: the set holding the type, empty for
\* NULL; created is created_at (DEFAULT NOW()), the instant of the insert,
\* later than that of every row before it
MemoryRow(pid, content, type, importance, e, created) ==
    [project |-> pid, content |-> content, type |-> type, importance |-> importance,
     emb |-> e, created |-> created]

\* memory_type: memoryType || null
MemoryTypeOrNull(args) ==
    IF Has(args, "memoryType") /\ args.memoryType # "" THEN {args.memoryType} ELSE {}

Embeddings == {0, 1, 2}

\* the hosted API: GET /projects/current answers with the marked project
ApiCurrentProject == marker

\* the hosted API: GET /projects lists the projects, most recently created first
ApiListProjects == NewestFirst(Ids(projects))

\* the hosted API: PUT /projects/current marks an existing project
ApiAcceptsMarker(pid) == ProjectExists(pid)

(***************************************************************************)
(* Remote: ensureCurrentProject.  The result: ok (it returned pid) or not  *)
(* (it threw MsgNoProjectAvailable), the reference cur and the marker mark *)
(* it leaves behind, and the requests it issued.                           *)
(***************************************************************************)
\* a faulty resolution, swallowing its failure:
\* C3_StoreMemoryWithoutProject does not hold of it
ResolutionSwallowed(ok, pid, cur, mark, reqs) ==
    [ok |-> TRUE, pid |-> pid, cur |-> cur, mark |-> mark, reqs |-> reqs]

Resolution(ok, pid, cur, mark, reqs) ==
    [ok |-> ok, pid |-> pid, cur |-> cur, mark |-> mark, reqs |-> reqs]

\* a faulty ensureCurrentProject, resolving afresh although a reference is
\* held: C23_HeldReferenceUsed does not hold of it
EnsureAfresh(F) ==
    IF "listProjects" \in F \/ ApiListProjects = <<>>
    THEN Resolution(FALSE, Null, currentProjectId, marker,
                    <<"getCurrentProject", "listProjects">>)
    ELSE Resolution(TRUE, ApiListProjects[1], ApiListProjects[1], ApiListProjects[1],
                    <<"getCurrentProject", "listProjects", "setCurrentProject">>)

EnsureCurrentProject(F) ==
    IF currentProjectId # Null
    THEN Resolution(TRUE, currentProjectId, currentProjectId, marker, <<>>)
    ELSE IF "getCurrentProject" \notin F /\ ApiCurrentProject # Null
    THEN Resolution(TRUE, ApiCurrentProject, ApiCurrentProject, marker,
                    <<"getCurrentProject">>)
    ELSE IF "listProjects" \in F \/ ApiListProjects = <<>>
    THEN Resolution(FALSE, Null, currentProjectId, marker,
                    <<"getCurrentProject", "listProjects">>)
    ELSE LET projectId == ApiListProjects[1]
             reqs == <<"getCurrentProject", "listProjects", "setCurrentProject">>
         IN  IF "setCurrentProject" \in F \/ ~ApiAcceptsMarker(projectId)
             THEN Resolution(FALSE, Null, projectId, marker, reqs)
             ELSE Resolution(TRUE, projectId, projectId, projectId, reqs)

ResolutionReqs == {"getCurrentProject", "listProjects", "setCurrentProject"}

\* what a resolution leaves in the session and at the backend
Resolved(r) == currentProjectId' = r.cur /\ marker' = r.mark

\* the handler's catch: `Error: ${error.message}` for a failed resolution
ResolutionFailed(tool, args, r) ==
    /\ Resolved(r)
    /\ Respond(tool, args, "error", ErrorText(MsgNoProjectAvailable), r.reqs, <<>>)
    /\ UNCHANGED <<variant, projects, memories, tasks>>

(***************************************************************************)
(* create_project                                                          *)
(***************************************************************************)
\* the store refuses the insert with error.code === '23505' (duplicate key)
DuplicateKey == "projects.insert.23505"

\* `A project named "${name}" already exists. Please choose a different name.`
MsgAlreadyExists(name) ==
    <<"A", "project", "named">> \o name
       \o <<"already", "exists", ".", "Please", "choose", "a", "different", "name", ".">>

\* F: the requests that fail; the insert fails as a duplicate key or with
\* another error of the store
DirectCreateProject(args, F) ==
    IF Trim(args.name) = <<>>
    THEN /\ Respond("create_project", args, "error", ErrorText(MsgNameEmpty), <<>>, <<>>)
         /\ UNCHANGED <<variant, currentProjectId, marker, projects, memories, tasks>>
    ELSE IF DuplicateKey \in F
    THEN /\ Respond("create_project", args, "error",
                    ErrorText(MsgAlreadyExists(args.name)), <<"projects.insert">>, <<>>)
         /\ UNCHANGED <<variant, currentProjectId, marker, projects, memories, tasks>>
    ELSE IF "projects.insert" \in F
    THEN /\ Respond("create_project", args, "error",
                    <<"Error", "creating", "project", ":">> \o BackendMsg("projects.insert"),
                    <<"projects.insert">>, <<>>)
         /\ UNCHANGED <<variant, currentProjectId, marker, projects, memories, tasks>>
    ELSE /\ projects' = Append(projects, ProjectRow(Trim(args.name)))
         /\ currentProjectId' = Len(projects) + 1
         /\ Respond("create_project", args, "ok",
                    <<"Project", "created", "and", "set", "as", "current">>,
                    <<"projects.insert">>, <<Len(projects) + 1>>)
         /\ UNCHANGED <<variant, marker, memories, tasks>>

RemoteCreateProject(args, F) ==
    IF "createProject" \in F
    THEN /\ Respond("create_project", args, "error", ErrorText(BackendMsg("createProject")),
                    <<"createProject">>, <<>>)
         /\ UNCHANGED <<variant, currentProjectId, marker, projects, memories, tasks>>
    ELSE /\ projects' = Append(projects, ProjectRow(args.name))
         /\ Respond("create_project", args, "ok", <<"project">>,
                    <<"createProject">>, <<Len(projects) + 1>>)
         /\ UNCHANGED <<variant, currentProjectId, marker, memories, tasks>>

CallCreateProject(args) ==
        Dispatch("create_project", args,
                 IF variant = "Direct"
                 THEN \E F \in {{}, {"projects.insert"}, {DuplicateKey}} :
                         DirectCreateProject(args, F)
                 ELSE \E F \in SUBSET {"createProject"} : RemoteCreateProject(args, F))

(***************************************************************************)
(* set_current_project                                                     *)
(***************************************************************************)
DirectSetCurrentProject(args, F) ==
    IF "projects.select" \in F
    THEN /\ Respond("set_current_project", args, "error",
                    <<"Error", "switching", "project", ":">> \o BackendMsg("projects.select"),
                    <<"projects.select">>, <<>>)
         /\ UNCHANGED <<variant, currentProjectId, marker, projects, memories, tasks>>
    ELSE IF ~ProjectExists(args.projectId)
    THEN /\ Respond("set_current_project", args, "error",
                    ErrorText(<<"Project", "with", "ID">> \o MsgNotFound),
                    <<"projects.select">>, <<>>)
         /\ UNCHANGED <<variant, currentProjectId, marker, projects, memories, tasks>>
    ELSE /\ currentProjectId' = args.projectId
         /\ Respond("set_current_project", args, "ok", <<"Switched", "to", "project">>,
                    <<"projects.select">>, <<args.projectId>>)
         /\ UNCHANGED <<variant, marker, projects, memories, tasks>>

\* the whole call as one step, as it runs when no other call is in flight;
\* BeginSwitch, BackendAnswers and ReturnSwitch are its steps at the await
RemoteSetCurrentProject(args, F) ==
    /\ currentProjectId' = args.projectId
    /\ IF "setCurrentProject" \in F \/ ~ApiAcceptsMarker(args.projectId)
       THEN /\ Respond("set_current_project", args, "error",
                       ErrorText(BackendMsg("setCurrentProject")),
                       <<"setCurrentProject">>, <<>>)
            /\ UNCHANGED marker
       ELSE /\ marker' = args.projectId
            /\ Respond("set_current_project", args, "ok",
                       <<"Current", "project", "set", "to">>,
                       <<"setCurrentProject">>, <<args.projectId>>)
    /\ UNCHANGED <<variant, projects, memories, tasks>>

CallSetCurrentProject(args) ==
        Dispatch("set_current_project", args,
                 IF variant = "Direct"
                 THEN \E F \in SUBSET {"projects.select"} : DirectSetCurrentProject(args, F)
                 ELSE \E F \in SUBSET {"setCurrentProject"} : RemoteSetCurrentProject(args, F))

(***************************************************************************)
(* get_current_project                                                     *)
(***************************************************************************)
DirectGetCurrentProject(F) ==
    /\ IF currentProjectId = Null
       THEN Respond("get_current_project", NoArgs, "ok", MsgNoProjectSelected, <<>>, <<>>)
       ELSE IF "projects.select" \in F \/ ~ProjectExists(currentProjectId)
       THEN Respond("get_current_project", NoArgs, "escaped",
                    BackendMsg("projects.select"), <<"projects.select">>, <<>>)
       ELSE Respond("get_current_project", NoArgs, "ok", <<"project", "stats">>,
                    <<"projects.select", "memories.select", "tasks.select">>,
                    <<currentProjectId>>)
    /\ UNCHANGED <<variant, currentProjectId, marker, projects, memories, tasks>>

RemoteGetCurrentProject(F) ==
    /\ IF "getCurrentProject" \in F
       THEN Respond("get_current_project", NoArgs, "error",
                    ErrorText(BackendMsg("getCurrentProject")), <<"getCurrentProject">>, <<>>)
       ELSE IF ApiCurrentProject = Null
       THEN Respond("get_current_project", NoArgs, "ok", MsgNoProjectSelected,
                    <<"getCurrentProject">>, <<>>)
       ELSE Respond("get_current_project", NoArgs, "ok", <<"project">>,
                    <<"getCurrentProject">>, <<ApiCurrentProject>>)
    /\ UNCHANGED <<variant, currentProjectId, marker, projects, memories, tasks>>

CallGetCurrentProject ==
    Dispatch("get_current_project", NoArgs,
             IF variant = "Direct"
             THEN \E F \in SUBSET {"projects.select"} : DirectGetCurrentProject(F)
             ELSE \E F \in SUBSET {"getCurrentProject"} : RemoteGetCurrentProject(F))

(***************************************************************************)
(* list_projects                                                           *)
(***************************************************************************)
DirectListProjects(F) ==
    /\ IF "projects.select" \in F
       THEN Respond("list_projects", NoArgs, "escaped", BackendMsg("projects.select"),
                    <<"projects.select">>, <<>>)
       ELSE Respond("list_projects", NoArgs, "ok", <<"projects">>,
                    <<"projects.select">>, NewestFirst(Ids(projects)))
    /\ UNCHANGED <<variant, currentProjectId, marker, projects, memories, tasks>>

RemoteListProjects(F) ==
    /\ IF "listProjects" \in F
       THEN Respond("list_projects", NoArgs, "error",
                    ErrorText(BackendMsg("listProjects")), <<"listProjects">>, <<>>)
       ELSE Respond("list_projects", NoArgs, "ok", <<"projects">>,
                    <<"listProjects">>, ApiListProjects)
    /\ UNCHANGED <<variant, currentProjectId, marker, projects, memories, tasks>>

CallListProjects ==
    Dispatch("list_projects", NoArgs,
             IF variant = "Direct"
             THEN \E F \in SUBSET {"projects.select"} : DirectListProjects(F)
             ELSE \E F \in SUBSET {"listProjects"} : RemoteListProjects(F))

(***************************************************************************)
(* store_memory                                                            *)
(***************************************************************************)
DirectStoreMemory(args, e, F) ==
    IF currentProjectId = Null
    THEN /\ Respond("store_memory", args, "error", ErrorText(MsgNoCurrentProjectSet),
                    <<>>, <<>>)
         /\ UNCHANGED <<variant, currentProjectId, marker, projects, memories, tasks>>
    ELSE IF Trim(args.content) = <<>>
    THEN /\ Respond("store_memory", args, "error", ErrorText(MsgContentEmpty), <<>>, <<>>)
         /\ UNCHANGED <<variant, currentProjectId, marker, projects, memories, tasks>>
    ELSE IF "embed" \in F
    THEN /\ Respond("store_memory", args, "error", ErrorText(BackendMsg("embed")),
                    <<"embed">>, <<>>)
         /\ UNCHANGED <<variant, currentProjectId, marker, projects, memories, tasks>>
    ELSE IF "memories.insert" \in F \/ ~ProjectExists(currentProjectId)
    THEN /\ Respond("store_memory", args, "error",
                    <<"Error", "storing", "memory", ":">> \o BackendMsg("memories.insert"),
                    <<"embed", "memories.insert">>, <<>>)
         /\ UNCHANGED <<variant, currentProjectId, marker, projects, memories, tasks>>
    ELSE /\ memories' = Append(memories, MemoryRow(currentProjectId, Trim(args.content),
                                                   MemoryTypeOrNull(args),
                                                   ImportanceOr5(args), e,
                                                   Len(memories) + 1))
         /\ Respond("store_memory", args, "ok", <<"Memory", "stored", "successfully">>,
                    <<"embed", "memories.insert">>, <<Len(memories) + 1>>)
         /\ UNCHANGED <<variant, currentProjectId, marker, projects, tasks>>

RemoteStoreMemory(args, e, F) ==
    LET r == EnsureCurrentProject(F) IN
    IF ~r.ok THEN ResolutionFailed("store_memory", args, r)
    ELSE IF "storeMemory" \in F \/ ~ProjectExists(r.pid)
    THEN /\ Resolved(r)
         /\ Respond("store_memory", args, "error", ErrorText(BackendMsg("storeMemory")),
                    Append(r.reqs, "storeMemory"), <<>>)
         /\ UNCHANGED <<variant, projects, memories, tasks>>
    ELSE /\ Resolved(r)
         /\ memories' = Append(memories, MemoryRow(r.pid, args.content,
                                                   IF Has(args, "memoryType")
                                                   THEN {args.memoryType} ELSE {},
                                                   ImportanceOr5(args), e,
                                                   Len(memories) + 1))
         /\ Respond("store_memory", args, "ok", <<"Memory", "stored", "successfully">>,
                    Append(r.reqs, "storeMemory"), <<Len(memories) + 1>>)
         /\ UNCHANGED <<variant, projects, tasks>>

CallStoreMemory(args, e) ==
        Dispatch("store_memory", args,
                 IF variant = "Direct"
                 THEN \E F \in SUBSET {"embed", "memories.insert"} :
                          DirectStoreMemory(args, e, F)
                 ELSE \E F \in SUBSET (ResolutionReqs \cup {"storeMemory"}) :
                          RemoteStoreMemory(args, e, F))

(***************************************************************************)
(* update_memory_importance                                                *)
(***************************************************************************)
DirectUpdateMemoryImportance(args, F) ==
    IF "memories.update" \in F
    THEN /\ Respond("update_memory_importance", args, "error",
                    <<"Error", "updating", "memory", "importance", ":">>
                        \o BackendMsg("memories.update"),
                    <<"memories.update">>, <<>>)
         /\ UNCHANGED <<variant, currentProjectId, marker, projects, memories, tasks>>
    ELSE IF ~MemoryExists(args.memoryId)
    THEN /\ Respond("update_memory_importance", args, "error",
                    ErrorText(<<"Memory", "with", "ID">> \o MsgNotFound),
                    <<"memories.update">>, <<>>)
         /\ UNCHANGED <<variant, currentProjectId, marker, projects, memories, tasks>>
    ELSE /\ memories' = [memories EXCEPT ![args.memoryId].importance = args.importance]
         /\ Respond("update_memory_importance", args, "ok",
                    <<"Memory", "importance", "updated">>,
                    <<"memories.update">>, <<args.memoryId>>)
         /\ UNCHANGED <<variant, currentProjectId, marker, projects, tasks>>

RemoteUpdateMemoryImportance(args, F) ==
    IF "updateMemoryImportance" \in F \/ ~MemoryExists(args.memoryId)
    THEN /\ Respond("update_memory_importance", args, "error",
                    ErrorText(BackendMsg("updateMemoryImportance")),
                    <<"updateMemoryImportance">>, <<>>)
         /\ UNCHANGED <<variant, currentProjectId, marker, projects, memories, tasks>>
    ELSE /\ memories' = [memories EXCEPT ![args.memoryId].importance = args.importance]
         /\ Respond("update_memory_importance", args, "ok",
                    <<"Memory", "importance", "updated", "successfully">>,
                    <<"updateMemoryImportance">>, <<args.memoryId>>)
         /\ UNCHANGED <<variant, currentProjectId, marker, projects, tasks>>

CallUpdateMemoryImportance(args) ==
        Dispatch("update_memory_importance", args,
                 IF variant = "Direct"
                 THEN \E F \in SUBSET {"memories.update"} :
                          DirectUpdateMemoryImportance(args, F)
                 ELSE \E F \in SUBSET {"updateMemoryImportance"} :
                          RemoteUpdateMemoryImportance(args, F))

(***************************************************************************)
(* get_memories                                                            *)
(***************************************************************************)
\* the ids of the memories of project pid that pass the filters given in f,
\* newest first:
\*   if (memoryType) query.eq('memory_type', memoryType)
\*   if (timeRange?.start) query.gte('created_at', timeRange.start)
\*   if (timeRange?.end) query.lte('created_at', timeRange.end)
\*   .order('created_at', { ascending: false })
MemoriesOf(pid, f) ==
    LET range == IF Has(f, "timeRange") THEN f.timeRange ELSE NoArgs
    IN  NewestFirst(SelectSeq(Ids(memories), LAMBDA i :
            /\ memories[i].project = pid
            /\ (Has(f, "memoryType") /\ f.memoryType # "")
                    => memories[i].type = {f.memoryType}
            /\ Has(range, "start") => memories[i].created >= range.start
            /\ Has(range, "end") => memories[i].created <= range.end))

DirectGetMemories(args, F) ==
    /\ IF currentProjectId = Null
       THEN Respond("get_memories", args, "error", ErrorText(MsgNoCurrentProjectSet),
                    <<>>, <<>>)
       ELSE IF "memories.select" \in F
       THEN Respond("get_memories", args, "error",
                    <<"Error", "retrieving", "memories", ":">> \o BackendMsg("memories.select"),
                    <<"memories.select">>, <<>>)
       ELSE IF MemoriesOf(currentProjectId, args) = <<>>
       THEN Respond("get_memories", args, "ok",
                    <<"No", "memories", "found", ".", "Use", "store_memory", "to",
                      "add", "some", "memories", "first", ".">>,
                    <<"memories.select">>, <<>>)
       ELSE Respond("get_memories", args, "ok", <<"memories">>,
                    <<"memories.select">>, MemoriesOf(currentProjectId, args))
    /\ UNCHANGED <<variant, currentProjectId, marker, projects, memories, tasks>>

\* apiClient.getMemories(projectId, 20)
GetMemoriesLimit == 20

\* the hosted API: GET /projects/:id/memories?limit=n answers with the n
\* newest memories of the project
ApiGetMemories(pid, limit) ==
    LET rows == MemoriesOf(pid, NoArgs)
    IN  SubSeq(rows, 1, IF limit < Len(rows) THEN limit ELSE Len(rows))

\* the handler takes no argument (`async () =>`): memoryType and timeRange
\* do not reach the API
RemoteGetMemories(args, F) ==
    LET r == EnsureCurrentProject(F) IN
    IF ~r.ok THEN ResolutionFailed("get_memories", args, r)
    ELSE /\ Resolved(r)
         /\ IF "getMemories" \in F \/ ~ProjectExists(r.pid)
            THEN Respond("get_memories", args, "error",
                         ErrorText(BackendMsg("getMemories")),
                         Append(r.reqs, "getMemories"), <<>>)
            ELSE Respond("get_memories", args, "ok", <<"memories">>,
                         Append(r.reqs, "getMemories"),
                         ApiGetMemories(r.pid, GetMemoriesLimit))
         /\ UNCHANGED <<variant, projects, memories, tasks>>

CallGetMemories(args) ==
    Dispatch("get_memories", args,
             IF variant = "Direct"
             THEN \E F \in SUBSET {"memories.select"} : DirectGetMemories(args, F)
             ELSE \E F \in SUBSET (ResolutionReqs \cup {"getMemories"}) :
                      RemoteGetMemories(args, F))

(***************************************************************************)
(* search_memory.  The store ranks by the search_memories procedure:       *)
(*   SELECT ..., 1 - (m.embedding <=> query_embedding) AS similarity       *)
(*   FROM memories m WHERE m.project_id = project_id                       *)
(*   ORDER BY m.embedding <=> query_embedding LIMIT match_count            *)
(* An embedding is a point of Embeddings and <=> the distance between two  *)
(* points, from 0 (the same direction) to 2 (opposite directions).         *)
(***************************************************************************)
Abs(x) == IF x < 0 THEN 0 - x ELSE x

Distance(e, q) == Abs(e - q)

Similarity(e, q) == 1 - Distance(e, q)

Min(a, b) == IF a < b THEN a ELSE b

\* a faulty ranking, the rows S in any order: C10_ResultsRanked does not
\* hold of it
AnyOrders(S, q) ==
    {s \in [1..Cardinality(S) -> S] : \A i, j \in DOMAIN s : i # j => s[i] # s[j]}

\* the rows of S nearest to the query
Nearest(S, q) ==
    {i \in S : \A j \in S : Distance(memories[i].emb, q) <= Distance(memories[j].emb, q)}

\* the orders in which the rows S may be returned: ORDER BY distance, rows
\* at the same distance in any order
RECURSIVE RankedOrders(_, _)
RankedOrders(S, q) ==
    IF S = {} THEN {<<>>}
    ELSE UNION {{<<i>> \o rest : rest \in RankedOrders(S \ {i}, q)} : i \in Nearest(S, q)}

SearchRow(i, q) == [id |-> i, similarity |-> Similarity(memories[i].emb, q)]

\* the results search_memories may return
SearchMemoriesRows(q, matchCount, pid) ==
    LET S == {i \in 1..Len(memories) : memories[i].project = pid}
    IN  {[k \in 1..Min(matchCount, Len(s)) |-> SearchRow(s[k], q)] : s \in RankedOrders(S, q)}

\* limit, defaulted: z.number()...default(10) (Direct), limit || 10 (Remote)
LimitOr10(args) ==
    IF Has(args, "limit") /\ args.limit # 0 THEN args.limit ELSE LimitDefault

DirectSearchMemory(args, q, F) ==
    /\ IF currentProjectId = Null
       THEN Respond("search_memory", args, "error", ErrorText(MsgNoCurrentProjectSet),
                    <<>>, <<>>)
       ELSE IF Trim(args.query) = <<>>
       THEN Respond("search_memory", args, "error", ErrorText(MsgQueryEmpty), <<>>, <<>>)
       ELSE IF "embed" \in F
       THEN Respond("search_memory", args, "error", ErrorText(BackendMsg("embed")),
                    <<"embed">>, <<>>)
       ELSE IF "search_memories" \in F
       THEN Respond("search_memory", args, "error",
                    <<"Error", "searching", "memories", ":">> \o BackendMsg("search_memories"),
                    <<"embed", "search_memories">>, <<>>)
       ELSE \E rows \in SearchMemoriesRows(q, LimitOr10(args), currentProjectId) :
                Respond("search_memory", args, "ok",
                        IF rows = <<>> THEN <<"No", "memories", "found">> ELSE <<"Found">>,
                        <<"embed", "search_memories">>, rows)
    /\ UNCHANGED <<variant, currentProjectId, marker, projects, memories, tasks>>

\* the hosted API: POST /projects/:id/memories/search returns the top limit
\* memories of the project by similarity
ApiSearchMemory(q, limit, pid) == SearchMemoriesRows(q, limit, pid)

RemoteSearchMemory(args, q, F) ==
    LET r == EnsureCurrentProject(F) IN
    IF ~r.ok THEN ResolutionFailed("search_memory", args, r)
    ELSE /\ Resolved(r)
         /\ IF "searchMemory" \in F \/ ~ProjectExists(r.pid)
            THEN Respond("search_memory", args, "error",
                         ErrorText(BackendMsg("searchMemory")),
                         Append(r.reqs, "searchMemory"), <<>>)
            ELSE \E rows \in ApiSearchMemory(q, LimitOr10(args), r.pid) :
                     Respond("search_memory", args, "ok", <<"results">>,
                             Append(r.reqs, "searchMemory"), rows)
         /\ UNCHANGED <<variant, projects, memories, tasks>>

CallSearchMemory(args, q) ==
    Dispatch("search_memory", args,
             IF variant = "Direct"
             THEN \E F \in SUBSET {"embed", "search_memories"} : DirectSearchMemory(args, q, F)
             ELSE \E F \in SUBSET (ResolutionReqs \cup {"searchMemory"}) :
                      RemoteSearchMemory(args, q, F))

(***************************************************************************)
(* get_project_context                                                     *)
(***************************************************************************)
DirectGetProjectContext(args, F) ==
    LET targetProjectId == IF Has(args, "projectId") THEN args.projectId
                           ELSE currentProjectId
    IN  /\ IF targetProjectId = Null
           THEN Respond("get_project_context", args, "escaped", MsgNoTargetProject,
                        <<>>, <<>>)
           ELSE IF "projects.select" \in F \/ ~ProjectExists(targetProjectId)
           THEN Respond("get_project_context", args, "escaped",
                        BackendMsg("projects.select"), <<"projects.select">>, <<>>)
           ELSE IF "memories.select" \in F
           THEN Respond("get_project_context", args, "escaped",
                        BackendMsg("memories.select"),
                        <<"projects.select", "memories.select">>, <<>>)
           ELSE IF "tasks.select" \in F
           THEN Respond("get_project_context", args, "escaped",
                        BackendMsg("tasks.select"),
                        <<"projects.select", "memories.select", "tasks.select">>, <<>>)
           ELSE Respond("get_project_context", args, "ok", <<"project", "context">>,
                        <<"projects.select", "memories.select", "tasks.select">>,
                        <<targetProjectId>>)
        /\ UNCHANGED <<variant, currentProjectId, marker, projects, memories, tasks>>

\* the handler's own GET /projects, after the resolution's requests
ContextListProjects == "getProjectContext.listProjects"

\* getMemories and listTasks are awaited together (Promise.all): when both
\* fail, the error is that of the one whose reply arrives first
RemoteGetProjectContext(args, F) ==
    LET r == IF Has(args, "projectId") /\ args.projectId # Null
             THEN Resolution(TRUE, args.projectId, currentProjectId, marker, <<>>)
             ELSE EnsureCurrentProject(F)
        failed == {"getMemories", "listTasks"} \cap F
    IN  IF ~r.ok THEN ResolutionFailed("get_project_context", args, r)
        ELSE /\ Resolved(r)
             /\ IF ContextListProjects \in F
                THEN Respond("get_project_context", args, "error",
                             ErrorText(BackendMsg("listProjects")),
                             Append(r.reqs, "listProjects"), <<>>)
                ELSE IF ~ProjectExists(r.pid)
                THEN Respond("get_project_context", args, "error",
                             ErrorText(MsgProjectNotFound),
                             Append(r.reqs, "listProjects"), <<>>)
                ELSE IF failed # {}
                THEN \E first \in failed :
                        Respond("get_project_context", args, "error",
                                ErrorText(BackendMsg(first)),
                                r.reqs \o <<"listProjects", "getMemories", "listTasks">>,
                                <<>>)
                ELSE Respond("get_project_context", args, "ok", <<"project", "context">>,
                             r.reqs \o <<"listProjects", "getMemories", "listTasks">>,
                             <<r.pid>>)
             /\ UNCHANGED <<variant, projects, memories, tasks>>

CallGetProjectContext(args) ==
    Dispatch("get_project_context", args,
             IF variant = "Direct"
             THEN \E F \in SUBSET {"projects.select", "memories.select", "tasks.select"} :
                      DirectGetProjectContext(args, F)
             ELSE \E F \in SUBSET (ResolutionReqs
                                      \cup {ContextListProjects, "getMemories", "listTasks"}) :
                      RemoteGetProjectContext(args, F))

(***************************************************************************)
(* Tasks.  A row's position is its id.  created is the row's created_at    *)
(* (DEFAULT NOW()): the rows of one insert share it, a later insert has a  *)
(* later one.                                                              *)
(***************************************************************************)
TaskRow(pid, title, status, priority, dependencies, parent, created) ==
    [project |-> pid, title |-> title, status |-> status, priority |-> priority,
     dependencies |-> dependencies, parent |-> parent, note |-> <<>>,
     created |-> created]

\* NOW() of the next insert into tasks
NextCreatedAt == Len(tasks) + 1

\* priority || 'medium'
PriorityOrMedium(args) == IF Has(args, "priority") THEN args.priority ELSE "medium"

\* dependencies || []
DependenciesOrNone(args) == IF Has(args, "dependencies") THEN args.dependencies ELSE <<>>

(***************************************************************************)
(* create_task                                                             *)
(***************************************************************************)
\* dependencies UUID[]: the store refuses an array holding a string that is
\* no UUID
DependenciesRefused(args) ==
    \E k \in 1..Len(DependenciesOrNone(args)) : ~IsUuid(DependenciesOrNone(args)[k])

DirectCreateTask(args, F) ==
    IF currentProjectId = Null
    THEN /\ Respond("create_task", args, "escaped", MsgNoCurrentProjectShort, <<>>, <<>>)
         /\ UNCHANGED <<variant, currentProjectId, marker, projects, memories, tasks>>
    ELSE IF \/ "tasks.insert" \in F
            \/ ~ProjectExists(currentProjectId)
            \/ DependenciesRefused(args)
    THEN /\ Respond("create_task", args, "escaped", BackendMsg("tasks.insert"),
                    <<"tasks.insert">>, <<>>)
         /\ UNCHANGED <<variant, currentProjectId, marker, projects, memories, tasks>>
    ELSE /\ tasks' = Append(tasks, TaskRow(currentProjectId, args.title, "pending",
                                           PriorityOrMedium(args),
                                           DependenciesOrNone(args), Null,
                                           NextCreatedAt))
         /\ Respond("create_task", args, "ok", <<"Task", "created">>,
                    <<"tasks.insert">>, <<Len(tasks) + 1>>)
         /\ UNCHANGED <<variant, currentProjectId, marker, projects, memories>>

RemoteCreateTask(args, F) ==
    LET r == EnsureCurrentProject(F) IN
    IF ~r.ok THEN ResolutionFailed("create_task", args, r)
    ELSE IF "createTask" \in F \/ ~ProjectExists(r.pid)
    THEN /\ Resolved(r)
         /\ Respond("create_task", args, "error", ErrorText(BackendMsg("createTask")),
                    Append(r.reqs, "createTask"), <<>>)
         /\ UNCHANGED <<variant, projects, memories, tasks>>
    ELSE /\ Resolved(r)
         /\ tasks' = Append(tasks, TaskRow(r.pid, args.title, "pending",
                                           PriorityOrMedium(args),
                                           DependenciesOrNone(args), Null,
                                           NextCreatedAt))
         /\ Respond("create_task", args, "ok", <<"task">>,
                    Append(r.reqs, "createTask"), <<Len(tasks) + 1>>)
         /\ UNCHANGED <<variant, projects, memories>>

CallCreateTask(args) ==
    Dispatch("create_task", args,
             IF variant = "Direct"
             THEN \E F \in SUBSET {"tasks.insert"} : DirectCreateTask(args, F)
             ELSE \E F \in SUBSET (ResolutionReqs \cup {"createTask"}) :
                      RemoteCreateTask(args, F))

(***************************************************************************)
(* list_tasks                                                              *)
(***************************************************************************)
\* if (assignee) query.eq('assignee', assignee): the tasks table has no
\* assignee column, the store refuses the select
AssigneeFilter(f) == Has(f, "assignee") /\ f.assignee # <<>>

\* the ids of the tasks of project pid that pass the status and priority
\* filters given in f (a select with no assignee filter)
TasksOf(pid, f) ==
    {i \in 1..Len(tasks) :
        /\ tasks[i].project = pid
        /\ Has(f, "status") => tasks[i].status = f.status
        /\ Has(f, "priority") => tasks[i].priority = f.priority}

\* .order('created_at', { ascending: false }): the orders of the rows S the
\* store may answer with, newest first; rows of the same created_at come in
\* any order
RECURSIVE NewestFirstOrders(_)
NewestFirstOrders(S) ==
    IF S = {} THEN {<<>>}
    ELSE LET newest == {i \in S : \A j \in S : tasks[j].created <= tasks[i].created}
         IN  UNION {{<<i>> \o rest : rest \in NewestFirstOrders(S \ {i})} : i \in newest}

DirectListTasks(args, F) ==
    /\ IF currentProjectId = Null
       THEN Respond("list_tasks", args, "escaped", MsgNoCurrentProjectShort, <<>>, <<>>)
       ELSE IF "tasks.select" \in F \/ AssigneeFilter(args)
       THEN Respond("list_tasks", args, "escaped", BackendMsg("tasks.select"),
                    <<"tasks.select">>, <<>>)
       ELSE \E rows \in NewestFirstOrders(TasksOf(currentProjectId, args)) :
               Respond("list_tasks", args, "ok", <<"tasks">>, <<"tasks.select">>, rows)
    /\ UNCHANGED <<variant, currentProjectId, marker, projects, memories, tasks>>

\* only the status filter reaches the API: listTasks(projectId, status)
StatusFilterOnly(args) ==
    IF Has(args, "status") THEN [status |-> args.status] ELSE NoArgs

RemoteListTasks(args, F) ==
    LET r == EnsureCurrentProject(F) IN
    IF ~r.ok THEN ResolutionFailed("list_tasks", args, r)
    ELSE /\ Resolved(r)
         /\ IF "listTasks" \in F \/ ~ProjectExists(r.pid)
            THEN Respond("list_tasks", args, "error", ErrorText(BackendMsg("listTasks")),
                         Append(r.reqs, "listTasks"), <<>>)
            ELSE \E rows \in NewestFirstOrders(TasksOf(r.pid, StatusFilterOnly(args))) :
                    Respond("list_tasks", args, "ok", <<"tasks">>,
                            Append(r.reqs, "listTasks"), rows)
         /\ UNCHANGED <<variant, projects, memories, tasks>>

CallListTasks(args) ==
    Dispatch("list_tasks", args,
             IF variant = "Direct"
             THEN \E F \in SUBSET {"tasks.select"} : DirectListTasks(args, F)
             ELSE \E F \in SUBSET (ResolutionReqs \cup {"listTasks"}) :
                      RemoteListTasks(args, F))

(***************************************************************************)
(* update_task_status                                                      *)
(***************************************************************************)
\* metadata: notes ? { statusNote: notes } : undefined
NoteOr(args, old) == IF Has(args, "notes") /\ args.notes # <<>> THEN args.notes ELSE old

DirectUpdateTaskStatus(args, F) ==
    IF "tasks.update" \in F \/ ~TaskExists(args.taskId)
    THEN /\ Respond("update_task_status", args, "escaped", BackendMsg("tasks.update"),
                    <<"tasks.update">>, <<>>)
         /\ UNCHANGED <<variant, currentProjectId, marker, projects, memories, tasks>>
    ELSE /\ tasks' = [tasks EXCEPT ![args.taskId].status = args.status,
                                   ![args.taskId].note = NoteOr(args, @)]
         /\ Respond("update_task_status", args, "ok", <<"Task", "status", "updated">>,
                    <<"tasks.update">>, <<args.taskId>>)
         /\ UNCHANGED <<variant, currentProjectId, marker, projects, memories>>

\* only taskId and status reach the API: updateTaskStatus(taskId, status)
RemoteUpdateTaskStatus(args, F) ==
    IF "updateTaskStatus" \in F \/ ~TaskExists(args.taskId)
    THEN /\ Respond("update_task_status", args, "error",
                    ErrorText(BackendMsg("updateTaskStatus")), <<"updateTaskStatus">>, <<>>)
         /\ UNCHANGED <<variant, currentProjectId, marker, projects, memories, tasks>>
    ELSE /\ tasks' = [tasks EXCEPT ![args.taskId].status = args.status]
         /\ Respond("update_task_status", args, "ok",
                    <<"Task", "status", "updated", "successfully">>,
                    <<"updateTaskStatus">>, <<args.taskId>>)
         /\ UNCHANGED <<variant, currentProjectId, marker, projects, memories>>

CallUpdateTaskStatus(args) ==
    Dispatch("update_task_status", args,
             IF variant = "Direct"
             THEN \E F \in SUBSET {"tasks.update"} : DirectUpdateTaskStatus(args, F)
             ELSE \E F \in SUBSET {"updateTaskStatus"} : RemoteUpdateTaskStatus(args, F))

(***************************************************************************)
(* suggest_next_task.  The Direct variant asks the store for               *)
(*   .in('status', ['pending', 'in_progress'])                             *)
(*   .order('priority', { ascending: false })                              *)
(*   .order('created_at', { ascending: true }).limit(1)                    *)
(* where priority is a TEXT column: the store compares the priorities as   *)
(* text, character by character.                                           *)
(***************************************************************************)
OpenStatuses == {"pending", "in_progress"}

\* the characters of a priority, as their codes
PriorityText(p) ==
    CASE p = "high" -> <<104, 105, 103, 104>>
      [] p = "low" -> <<108, 111, 119>>
      [] p = "medium" -> <<109, 101, 100, 105, 117, 109>>

RECURSIVE TextLess(_, _)
TextLess(a, b) ==
    IF b = <<>> THEN FALSE
    ELSE IF a = <<>> THEN TRUE
    ELSE IF Head(a) # Head(b) THEN Head(a) < Head(b)
    ELSE TextLess(Tail(a), Tail(b))

\* ORDER BY priority DESC, created_at ASC: row i comes before row j
DirectSuggestBefore(i, j) ==
    \/ TextLess(PriorityText(tasks[j].priority), PriorityText(tasks[i].priority))
    \/ tasks[i].priority = tasks[j].priority /\ tasks[i].created < tasks[j].created

OpenTasksOf(pid) ==
    {i \in 1..Len(tasks) : tasks[i].project = pid /\ tasks[i].status \in OpenStatuses}

\* the rows the query may answer with: the first open task of the project
\* in that order (any of those no other task comes before), or none
DirectSuggestRows(pid) ==
    LET C == OpenTasksOf(pid)
    IN  IF C = {} THEN {<<>>}
        ELSE {<<i>> : i \in {k \in C : \A j \in C : ~DirectSuggestBefore(j, k)}}

DirectSuggestNextTask(args, F) ==
    /\ IF "tasks.select" \in F \/ currentProjectId = Null
       THEN Respond("suggest_next_task", args, "escaped", BackendMsg("tasks.select"),
                    <<"tasks.select">>, <<>>)
       ELSE \E rows \in DirectSuggestRows(currentProjectId) :
               Respond("suggest_next_task", args, "ok",
                       IF rows = <<>>
                       THEN <<"No", "pending", "tasks", "found">>
                       ELSE <<"Suggested", "next", "task">>,
                       <<"tasks.select">>, rows)
    /\ UNCHANGED <<variant, currentProjectId, marker, projects, memories, tasks>>

PriorityRank(p) == CASE p = "high" -> 3 [] p = "medium" -> 2 [] p = "low" -> 1

\* the hosted API: POST /tasks/suggest selects, among the open tasks of the
\* project, the one of the highest priority, the earliest created first
ApiSuggestNextTask(pid) ==
    LET C == OpenTasksOf(pid)
    IN  IF C = {} THEN {<<>>}
        ELSE {<<i>> : i \in {k \in C : \A j \in C :
                   ~ \/ PriorityRank(tasks[j].priority) > PriorityRank(tasks[k].priority)
                     \/ /\ tasks[j].priority = tasks[k].priority
                        /\ tasks[j].created < tasks[k].created}}

RemoteSuggestNextTask(args, F) ==
    LET r == EnsureCurrentProject(F) IN
    IF ~r.ok THEN ResolutionFailed("suggest_next_task", args, r)
    ELSE /\ Resolved(r)
         /\ IF "suggestNextTask" \in F \/ ~ProjectExists(r.pid)
            THEN Respond("suggest_next_task", args, "error",
                         ErrorText(BackendMsg("suggestNextTask")),
                         Append(r.reqs, "suggestNextTask"), <<>>)
            ELSE \E rows \in ApiSuggestNextTask(r.pid) :
                    Respond("suggest_next_task", args, "ok", <<"suggestion">>,
                            Append(r.reqs, "suggestNextTask"), rows)
         /\ UNCHANGED <<variant, projects, memories, tasks>>

CallSuggestNextTask(args) ==
    Dispatch("suggest_next_task", args,
             IF variant = "Direct"
             THEN \E F \in SUBSET {"tasks.select"} : DirectSuggestNextTask(args, F)
             ELSE \E F \in SUBSET (ResolutionReqs \cup {"suggestNextTask"}) :
                      RemoteSuggestNextTask(args, F))

(***************************************************************************)
(* break_down_task                                                         *)
(***************************************************************************)
\* the three subtasks the Direct handler derives from a task: title prefix
\* and priority
DirectSubtasks(task) ==
    <<[title |-> <<"Research", ":">> \o task.title, priority |-> task.priority],
      [title |-> <<"Implement", ":">> \o task.title, priority |-> task.priority],
      [title |-> <<"Test", ":">> \o task.title, priority |-> "medium"]>>

\* the rows it inserts: { ...st, project_id: currentProjectId,
\* status: 'pending', dependencies: [taskId] }
DirectSubtaskRows(taskId) ==
    LET sub == DirectSubtasks(tasks[taskId])
    IN  [k \in 1..Len(sub) |->
            TaskRow(currentProjectId, sub[k].title, "pending", sub[k].priority,
                    <<taskId>>, Null, NextCreatedAt)]

NewIds(table, rows) == [k \in 1..Len(rows) |-> Len(table) + k]

DirectBreakDownTask(args, F) ==
    IF currentProjectId = Null
    THEN /\ Respond("break_down_task", args, "escaped", MsgNoCurrentProjectShort,
                    <<>>, <<>>)
         /\ UNCHANGED <<variant, currentProjectId, marker, projects, memories, tasks>>
    ELSE IF "tasks.select" \in F \/ ~TaskExists(args.taskId)
    THEN /\ Respond("break_down_task", args, "escaped", BackendMsg("tasks.select"),
                    <<"tasks.select">>, <<>>)
         /\ UNCHANGED <<variant, currentProjectId, marker, projects, memories, tasks>>
    ELSE IF "tasks.insert" \in F \/ ~ProjectExists(currentProjectId)
    THEN /\ Respond("break_down_task", args, "escaped", BackendMsg("tasks.insert"),
                    <<"tasks.select", "tasks.insert">>, <<>>)
         /\ UNCHANGED <<variant, currentProjectId, marker, projects, memories, tasks>>
    ELSE /\ tasks' = tasks \o DirectSubtaskRows(args.taskId)
         /\ Respond("break_down_task", args, "ok", <<"Task", "broken", "down">>,
                    <<"tasks.select", "tasks.insert">>,
                    NewIds(tasks, DirectSubtaskRows(args.taskId)))
         /\ UNCHANGED <<variant, currentProjectId, marker, projects, memories>>

\* the hosted API: POST /tasks/:id/breakdown creates three children of the
\* task in the task's project, each depending on it
ApiSubtaskRows(taskId) ==
    LET task == tasks[taskId]
        sub == <<[title |-> <<"Research", ":">> \o task.title, priority |-> task.priority],
                 [title |-> <<"Implement", ":">> \o task.title, priority |-> task.priority],
                 [title |-> <<"Test", ":">> \o task.title, priority |-> "medium"]>>
    IN  [k \in 1..Len(sub) |->
            TaskRow(task.project, sub[k].title, "pending", sub[k].priority,
                    <<taskId>>, taskId, NextCreatedAt)]

RemoteBreakDownTask(args, F) ==
    IF "breakDownTask" \in F \/ ~TaskExists(args.taskId)
    THEN /\ Respond("break_down_task", args, "error",
                    ErrorText(BackendMsg("breakDownTask")), <<"breakDownTask">>, <<>>)
         /\ UNCHANGED <<variant, currentProjectId, marker, projects, memories, tasks>>
    ELSE /\ tasks' = tasks \o ApiSubtaskRows(args.taskId)
         /\ Respond("break_down_task", args, "ok", <<"subtasks">>, <<"breakDownTask">>,
                    NewIds(tasks, ApiSubtaskRows(args.taskId)))
         /\ UNCHANGED <<variant, currentProjectId, marker, projects, memories>>

CallBreakDownTask(args) ==
    Dispatch("break_down_task", args,
             IF variant = "Direct"
             THEN \E F \in SUBSET {"tasks.select", "tasks.insert"} :
                      DirectBreakDownTask(args, F)
             ELSE \E F \in SUBSET {"breakDownTask"} : RemoteBreakDownTask(args, F))

(***************************************************************************)
(* The process and its API client.                                         *)
(*   process   main(): pc, whether the API key is in the environment       *)
(*             (apiKey), whether validateKey succeeded (valid), whether    *)
(*             server.connect established the session, and the exit code   *)
(*   request   the client's request(): the build of the client (src/src/   *)
(*             index.ts: AgentCortex; src/unnamed/part_002: TaskMem), pc,  *)
(*             the reply the transport gives, and the result: a value      *)
(*             returned or an error thrown, an error being its message     *)
(*             (every catch of the program reads error.message only)       *)
(*   tracking  the usage-tracking requests dispatched so far, each         *)
(*             pending, ok or failed                                       *)
(***************************************************************************)
MaxTracking == 2

Clients == {"AgentCortex", "TaskMem"}

\* texts a server or a transport may put in a message
Texts == {<<"unavailable">>}

JsonNull == [isNull |-> TRUE, message |-> <<>>]

\* a JSON body: null, or an object whose message is empty (or absent) or a text
JsonValues == {JsonNull} \cup {[isNull |-> FALSE, message |-> m] : m \in {<<>>} \cup Texts}

Bodies == {[parses |-> FALSE, value |-> JsonNull]}
              \cup {[parses |-> TRUE, value |-> v] : v \in JsonValues}

\* what fetch settles with: a rejection (the value thrown is an Error or is
\* not) or a response with a status and a body
Replies ==
    {[kind |-> "rejected", isError |-> e, message |-> m, status |-> 0,
      body |-> [parses |-> FALSE, value |-> JsonNull]] : e \in BOOLEAN, m \in Texts}
    \cup {[kind |-> "response", isError |-> FALSE, message |-> <<>>, status |-> s,
           body |-> b] : s \in {200, 500}, b \in Bodies}

\* a faulty test, taking every response for a success:
\* C26_OneTrackingPerSuccess does not hold of it
OkAnyStatus(reply) == reply.kind = "response"

\* response.ok
Ok(reply) == reply.status \in 200..299

StatusText(status) == IF status = 500 THEN <<"Internal", "Server", "Error">> ELSE <<"OK">>

\* `API request failed: ${response.status} ${response.statusText}`
\* (TaskMem: `API request failed: ${response.statusText}`)
Fallback(client, status) ==
    <<"API", "request", "failed", ":">>
        \o (IF client # "AgentCortex" THEN <<>>
            ELSE IF status = 500 THEN <<"500">> ELSE <<"200">>)
        \o StatusText(status)

\* the message of the error response.json() rejects with
MsgInvalidJson == <<"invalid", "json", "response", "body">>

\* the message of the TypeError of reading a property of null
MsgNullProperty == <<"Cannot", "read", "properties", "of", "null">>

Thrown(message) == [threw |-> TRUE, message |-> message, value |-> JsonNull]

Returned(value) == [threw |-> FALSE, message |-> <<>>, value |-> value]

\* request(): the error thrown for a rejected fetch or a response that is
\* not ok
RequestError(client, reply) ==
    IF reply.kind = "rejected"
    THEN IF client = "AgentCortex" /\ ~reply.isError
         THEN Thrown(<<"Network", "error", ":">> \o reply.message)
         ELSE Thrown(reply.message)
    ELSE IF client = "AgentCortex"
    THEN IF reply.body.parses /\ ~reply.body.value.isNull
               /\ reply.body.value.message # <<>>
         THEN Thrown(reply.body.value.message)
         ELSE Thrown(Fallback(client, reply.status))
    ELSE IF ~reply.body.parses THEN Thrown(MsgInvalidJson)
    ELSE IF reply.body.value.isNull THEN Thrown(MsgNullProperty)
    ELSE IF reply.body.value.message # <<>> THEN Thrown(reply.body.value.message)
    ELSE Thrown(Fallback(client, reply.status))

\* a faulty trackUsage, returning the tracking fetch without its catch:
\* C13_TrackingNeverAffectsCall does not hold of it
AwaitTrackedFetch(t) ==
    IF t = "pending" THEN "waits" ELSE IF t = "failed" THEN "throws" ELSE "resumes"

\* `await this.trackUsage(...)`: trackUsage starts the tracking fetch, chains
\* .catch(() => {}) and returns nothing, so the promise awaited is resolved
\* whatever the state t of the tracking request
AwaitTrackUsage(t) == "resumes"

IdleRequest(client) ==
    [client |-> client, pc |-> "idle", reply |-> CHOOSE r \in Replies : Ok(r),
     result |-> Returned(JsonNull)]

\* the project-scoped calls whose resolution is in flight: none yet
MaxCalls == 2

IdleCall == [pc |-> "idle", ok |-> TRUE, value |-> <<>>, pid |-> Null, reqs |-> <<>>,
             clean |-> TRUE]

NoCalls == [c \in 1..MaxCalls |-> IdleCall]

\* a process that has connected: it serves tool calls
Serving ==
    /\ process = [pc |-> "connected", apiKey |-> TRUE, valid |-> TRUE,
                  session |-> TRUE, code |-> 0]
    /\ request = IdleRequest("AgentCortex")
    /\ tracking = <<>>
    /\ calls = NoCalls

Backend == <<variant, currentProjectId, marker, projects, memories, tasks, last, calls>>

\* a faulty main(), going on without the API key:
\* C14_SessionOnlyAfterValidation does not hold of it
ReadCredentialUnchecked ==
    /\ process.pc = "start"
    /\ process' = [process EXCEPT !.pc = "validating"]
    /\ UNCHANGED <<Backend, request, tracking>>

\* main(): the API key is read from the environment; without it, exit(1)
ReadCredential ==
    /\ process.pc = "start"
    /\ process' = IF process.apiKey
                  THEN [process EXCEPT !.pc = "validating"]
                  ELSE [process EXCEPT !.pc = "exited", !.code = 1]
    /\ UNCHANGED <<Backend, request, tracking>>

\* request(): fetch is called; the transport will settle it with reply
SendRequest ==
    /\ \/ process.pc = "validating" /\ request.pc = "idle"
       \/ process.pc = "connected" /\ request.pc \in {"idle", "returned"}
    /\ Len(tracking) < MaxTracking
    /\ \E reply \in Replies : request' = [request EXCEPT !.pc = "sent", !.reply = reply]
    /\ UNCHANGED <<Backend, process, tracking>>

\* request(): fetch has settled.  A rejection or a response that is not ok
\* throws; after an ok response trackUsage dispatches the tracking request
ReceiveReply ==
    /\ request.pc = "sent"
    /\ IF Ok(request.reply)
       THEN /\ request' = [request EXCEPT !.pc = "tracked"]
            /\ tracking' = Append(tracking, "pending")
       ELSE /\ request' = [request EXCEPT !.pc = "returned",
                              !.result = RequestError(request.client, request.reply)]
            /\ UNCHANGED tracking
    /\ UNCHANGED <<Backend, process>>

\* request(): `return response.json()` after `await this.trackUsage(...)`
ReturnBody ==
    /\ request.pc = "tracked"
    /\ LET a == AwaitTrackUsage(tracking[Len(tracking)])
       IN  /\ a # "waits"
           /\ request' = [request EXCEPT !.pc = "returned",
                  !.result = IF a = "throws" THEN Thrown(<<"tracking", "failed">>)
                             ELSE IF request.reply.body.parses
                             THEN Returned(request.reply.body.value)
                             ELSE Thrown(MsgInvalidJson)]
    /\ UNCHANGED <<Backend, process, tracking>>

\* a tracking request settles; .catch(() => {}) discards its failure
TrackingSettles ==
    /\ \E i \in 1..Len(tracking), o \in {"ok", "failed"} :
          /\ tracking[i] = "pending"
          /\ tracking' = [tracking EXCEPT ![i] = o]
    /\ UNCHANGED <<Backend, process, request>>

\* main(): validateKey has returned or thrown; on an error, exit(1)
ValidateKey ==
    /\ process.pc = "validating"
    /\ request.pc = "returned"
    /\ process' = IF request.result.threw
                  THEN [process EXCEPT !.pc = "exited", !.code = 1]
                  ELSE [process EXCEPT !.pc = "validated", !.valid = TRUE]
    /\ UNCHANGED <<Backend, request, tracking>>

\* main(): server.connect(transport); when it throws, main().catch exits
Connect ==
    /\ process.pc = "validated"
    /\ \E connected \in BOOLEAN :
          process' = IF connected
                     THEN [process EXCEPT !.pc = "connected", !.session = TRUE]
                     ELSE [process EXCEPT !.pc = "exited", !.code = 1]
    /\ UNCHANGED <<Backend, request, tracking>>

\* SIGINT: server.close(), exit(0)
Sigint ==
    /\ process.pc = "connected"
    /\ process' = [process EXCEPT !.pc = "exited", !.code = 0]
    /\ UNCHANGED <<Backend, request, tracking>>

InitClient ==
    /\ variant = "Remote"
    /\ currentProjectId = Null
    /\ marker = Null
    /\ projects = <<>>
    /\ memories = <<>>
    /\ tasks = <<>>
    /\ last = NoCall
    /\ \E k \in BOOLEAN :
          process = [pc |-> "start", apiKey |-> k, valid |-> FALSE,
                     session |-> FALSE, code |-> 0]
    /\ \E c \in Clients : request = IdleRequest(c)
    /\ tracking = <<>>
    /\ calls = NoCalls

NextClient ==
    \/ ReadCredential \/ SendRequest \/ ReceiveReply \/ ReturnBody
    \/ TrackingSettles \/ ValidateKey \/ Connect \/ Sigint

\* the steps of main() up to the session
Startup ==
    \/ ReadCredential
    \/ process.pc = "validating" /\ (SendRequest \/ ReceiveReply \/ ReturnBody)
    \/ ValidateKey
    \/ Connect

\* the event loop runs every continuation of main() that is ready, and the
\* transport settles the fetch of validateKey
SpecClient == InitClient /\ [][NextClient]_vars /\ WF_vars(Startup)

(***************************************************************************)
(* Spec: the session and its projects.  The session starts with no         *)
(* reference held, over a backend that may already hold projects (it       *)
(* outlives the process).  store_memory stands for the project-scoped      *)
(* tools.                                                                  *)
(***************************************************************************)
ProjectTables(n) == UNION {[1..k -> {ProjectRow(<<"A">>)}] : k \in 0..n}

Init ==
    /\ variant \in Variants
    /\ currentProjectId = Null
    /\ projects \in ProjectTables(MaxProjects)
    /\ marker \in IF variant = "Remote" THEN {Null} \cup (1..Len(projects)) ELSE {Null}
    /\ memories = <<>>
    /\ tasks = <<>>
    /\ last = NoCall
    /\ Serving

CreateProject ==
    /\ Len(projects) < MaxProjects
    /\ \E args \in {[name |-> n] : n \in {<<>>, <<"A">>}} : CallCreateProject(args)

SetCurrentProject == \E args \in SetCurrentProjectArgs : CallSetCurrentProject(args)

GetCurrentProject == CallGetCurrentProject

ListProjects == CallListProjects

StoreMemory ==
    /\ Len(memories) < MaxMemories
    /\ \E args \in {[content |-> c] : c \in {<<>>, <<"\t">>, <<" ", "h", "i", "\n">>}} :
           CallStoreMemory(args, 0)

Next ==
    \/ CreateProject
    \/ SetCurrentProject
    \/ GetCurrentProject
    \/ ListProjects
    \/ StoreMemory

Spec == Init /\ [][Next]_vars

(***************************************************************************)
(* Properties of the session: projects and the current project.            *)
(***************************************************************************)
\* C1: for every tool and every failure raised while its handler runs, the
\* call completes by returning the envelope whose text carries the error
\* message: no error escapes the handler to the protocol layer.
C1_NoErrorEscapes ==
    last.tool # "none" /\ last.outcome # "validation"
        => /\ last.outcome \in {"ok", "error"}
           /\ last.outcome = "error" => Mentions(last.text, "Error")

\* C2: after a create_project call that succeeds, the created project is the
\* session's current project: the session holding a reference, the next
\* project-scoped call, here a store_memory that succeeds, operates on the
\* created project.
C2_NextCallUsesCreatedProject ==
    [][(/\ last.tool = "create_project"
        /\ last.outcome = "ok"
        /\ currentProjectId # Null
        /\ last'.tool = "store_memory"
        /\ last'.outcome = "ok")
          => memories'[last'.data[1]].project = last.data[1]]_vars

\* C3: when the backend holds no project and no current-project reference is
\* held, a store_memory call (of arguments its schema accepts) fails with
\* an error envelope whose message names create_project, in the Remote
\* variant the message of ensureCurrentProject's error, and creates no memory.
C3_StoreMemoryWithoutProject ==
    [][(/\ projects = <<>>
        /\ currentProjectId = Null
        /\ last'.tool = "store_memory"
        /\ SchemaOK(variant, "store_memory", last'.args))
          => /\ last'.outcome = "error"
             /\ Mentions(last'.text, "create_project")
             /\ variant = "Remote" => last'.text = ErrorText(MsgNoProjectAvailable)
             /\ memories' = memories
             /\ projects' = projects]_vars

\* a store_memory call has failed for want of a project, in each variant
C3_Witness ==
    /\ last.tool = "store_memory"
    /\ last.outcome = "error"
    /\ projects = <<>>
    /\ currentProjectId = Null
    /\ memories = <<>>
    /\ Mentions(last.text, "create_project")
    /\ variant = "Remote"
    /\ last.reqs = <<"getCurrentProject", "listProjects">>

(***************************************************************************)
(* The dispatcher: every tool of the catalogue, called with arguments that *)
(* pass its schema and with arguments that violate it.                     *)
(***************************************************************************)
MaxTasks == 4

Title == <<"T">>

DispatchArgs(tool) ==
    CASE tool = "store_memory" ->
            Opt({[content |-> c] : c \in {<<>>, <<"h", "i">>}}, "importance", {0, 11})
      [] tool = "search_memory" ->
            Opt({[query |-> q] : q \in {<<>>, <<"q">>}}, "limit", {0, 101})
      [] tool = "get_memories" ->
            Opt({NoArgs}, "timeRange",
                {[start |-> 1], [start |-> MalformedDatetime],
                 [start |-> 1, end |-> MalformedDatetime]})
      [] tool = "update_memory_importance" ->
            {[memoryId |-> m, importance |-> i] : m \in {1, MalformedId}, i \in {7, 11}}
      [] tool = "create_project" -> {[name |-> n] : n \in {<<>>, <<"A">>, LongName}}
      [] tool = "set_current_project" -> {[projectId |-> p] : p \in {1, MalformedId}}
      [] tool = "get_project_context" -> Opt({NoArgs}, "projectId", {1, MalformedId})
      [] tool = "create_task" ->
            Opt({[title |-> t] : t \in {<<>>, Title}}, "priority", {"high", "urgent"})
      [] tool = "list_tasks" ->
            {NoArgs, [status |-> "pending"], [status |-> "invalid_status"],
             [priority |-> "urgent"]}
      [] tool = "update_task_status" ->
            {[taskId |-> t, status |-> s] :
                t \in {1, MalformedId}, s \in {"completed", "invalid_status"}}
      [] tool = "break_down_task" ->
            Opt({[taskId |-> t] : t \in {1, MalformedId}}, "targetComplexity", {11})
      [] OTHER -> {NoArgs}

\* a call of the tool whose backend requests all succeed
Served(tool, args) ==
    LET D == variant = "Direct" IN
    CASE tool = "store_memory" ->
            IF D THEN DirectStoreMemory(args, 0, {}) ELSE RemoteStoreMemory(args, 0, {})
      [] tool = "search_memory" ->
            IF D THEN DirectSearchMemory(args, 0, {}) ELSE RemoteSearchMemory(args, 0, {})
      [] tool = "get_memories" ->
            IF D THEN DirectGetMemories(args, {}) ELSE RemoteGetMemories(args, {})
      [] tool = "update_memory_importance" ->
            IF D THEN DirectUpdateMemoryImportance(args, {})
            ELSE RemoteUpdateMemoryImportance(args, {})
      [] tool = "create_project" ->
            IF D THEN DirectCreateProject(args, {}) ELSE RemoteCreateProject(args, {})
      [] tool = "set_current_project" ->
            IF D THEN DirectSetCurrentProject(args, {}) ELSE RemoteSetCurrentProject(args, {})
      [] tool = "get_current_project" ->
            IF D THEN DirectGetCurrentProject({}) ELSE RemoteGetCurrentProject({})
      [] tool = "list_projects" ->
            IF D THEN DirectListProjects({}) ELSE RemoteListProjects({})
      [] tool = "get_project_context" ->
            IF D THEN DirectGetProjectContext(args, {}) ELSE RemoteGetProjectContext(args, {})
      [] tool = "create_task" ->
            IF D THEN DirectCreateTask(args, {}) ELSE RemoteCreateTask(args, {})
      [] tool = "list_tasks" ->
            IF D THEN DirectListTasks(args, {}) ELSE RemoteListTasks(args, {})
      [] tool = "update_task_status" ->
            IF D THEN DirectUpdateTaskStatus(args, {}) ELSE RemoteUpdateTaskStatus(args, {})
      [] tool = "suggest_next_task" ->
            IF D THEN DirectSuggestNextTask(args, {}) ELSE RemoteSuggestNextTask(args, {})
      [] tool = "break_down_task" ->
            IF D THEN DirectBreakDownTask(args, {}) ELSE RemoteBreakDownTask(args, {})

DStoreMemory ==
    /\ memories = <<>>
    /\ \E args \in DispatchArgs("store_memory") : Dispatch("store_memory", args, Served("store_memory", args))

DSearchMemory ==
    \E args \in DispatchArgs("search_memory") : Dispatch("search_memory", args, Served("search_memory", args))

DGetMemories ==
    \E args \in DispatchArgs("get_memories") : Dispatch("get_memories", args, Served("get_memories", args))

DUpdateMemoryImportance ==
    \E args \in DispatchArgs("update_memory_importance") : Dispatch("update_memory_importance", args, Served("update_memory_importance", args))

DCreateProject ==
    /\ Len(projects) < MaxProjects
    /\ \E args \in DispatchArgs("create_project") : Dispatch("create_project", args, Served("create_project", args))

DSetCurrentProject ==
    \E args \in DispatchArgs("set_current_project") : Dispatch("set_current_project", args, Served("set_current_project", args))

DGetCurrentProject ==
    \E args \in DispatchArgs("get_current_project") : Dispatch("get_current_project", args, Served("get_current_project", args))

DListProjects ==
    \E args \in DispatchArgs("list_projects") : Dispatch("list_projects", args, Served("list_projects", args))

DGetProjectContext ==
    \E args \in DispatchArgs("get_project_context") : Dispatch("get_project_context", args, Served("get_project_context", args))

DCreateTask ==
    /\ tasks = <<>>
    /\ \E args \in DispatchArgs("create_task") : Dispatch("create_task", args, Served("create_task", args))

DListTasks ==
    \E args \in DispatchArgs("list_tasks") : Dispatch("list_tasks", args, Served("list_tasks", args))

DUpdateTaskStatus ==
    \E args \in DispatchArgs("update_task_status") : Dispatch("update_task_status", args, Served("update_task_status", args))

DSuggestNextTask ==
    \E args \in DispatchArgs("suggest_next_task") : Dispatch("suggest_next_task", args, Served("suggest_next_task", args))

DBreakDownTask ==
    /\ Len(tasks) + 3 <= MaxTasks
    /\ \E args \in DispatchArgs("break_down_task") : Dispatch("break_down_task", args, Served("break_down_task", args))

NextDispatch ==
    \/ DStoreMemory \/ DSearchMemory \/ DGetMemories \/ DUpdateMemoryImportance
    \/ DCreateProject \/ DSetCurrentProject \/ DGetCurrentProject \/ DListProjects
    \/ DGetProjectContext \/ DCreateTask \/ DListTasks \/ DUpdateTaskStatus
    \/ DSuggestNextTask \/ DBreakDownTask

SpecDispatch == Init /\ [][NextDispatch]_vars

\* C4: a call whose arguments violate the tool's declared parameter schema
\* (a status or priority outside its enumeration, an importance or target
\* complexity outside 1..10, a limit outside 1..100, an empty content, query,
\* name or title, in the Direct variant an id that is no UUID, a name
\* longer than 100 characters or a timeRange bound that is no ISO
\* date-time) is rejected before the handler runs: no
\* backend request is issued, it is not reported as a handler error, and the
\* session and the backend are unchanged.
C4_SchemaViolationRejected ==
    [][LET tool == last'.tool
           args == last'.args
           Outside(f, S) == Has(args, f) /\ args[f] \notin S
           Empty(f) == Has(args, f) /\ args[f] = <<>>
           violation ==
               \/ tool \in {"update_task_status", "list_tasks"}
                      /\ Outside("status", {"pending", "in_progress", "completed", "cancelled"})
               \/ tool \in {"create_task", "list_tasks"}
                      /\ Outside("priority", {"low", "medium", "high"})
               \/ tool \in {"store_memory", "update_memory_importance"}
                      /\ Outside("importance", 1..10)
               \/ tool = "break_down_task" /\ Outside("targetComplexity", 1..10)
               \/ tool = "search_memory" /\ Outside("limit", 1..100)
               \/ Empty("content") \/ Empty("query") \/ Empty("name") \/ Empty("title")
               \/ variant = "Direct"
                      /\ \/ \E f \in {"memoryId", "projectId", "taskId"} :
                                Has(args, f) /\ args[f] = MalformedId
                         \/ Has(args, "name") /\ Len(args.name) > 100
                         \/ /\ tool = "get_memories"
                            /\ Has(args, "timeRange")
                            /\ \E f \in {"start", "end"} :
                                  /\ Has(args.timeRange, f)
                                  /\ args.timeRange[f] = MalformedDatetime
       IN  tool # "none" /\ violation
               => /\ last'.outcome = "validation"
                  /\ last'.reqs = <<>>
                  /\ UNCHANGED <<currentProjectId, marker, projects, memories, tasks>>]_vars

\* update_task_status with an invalid status was rejected although the task
\* exists and the session holds a project
C4_Witness ==
    /\ last.tool = "update_task_status"
    /\ last.args = [taskId |-> 1, status |-> "invalid_status"]
    /\ last.outcome = "validation"
    /\ TaskExists(1)
    /\ tasks[1].status = "pending"
    /\ currentProjectId # Null

(***************************************************************************)
(* Memories and their importance.                                          *)
(***************************************************************************)
Content == <<"h", "i">>

\* a session that starts on a backend holding one project
InitOneProject ==
    /\ variant \in Variants
    /\ currentProjectId = Null
    /\ projects = <<ProjectRow(<<"A">>)>>
    /\ marker \in IF variant = "Remote" THEN {Null, 1} ELSE {Null}
    /\ memories = <<>>
    /\ tasks = <<>>
    /\ last = NoCall
    /\ Serving

\* set_current_project with the id of a project of the backend
SwitchProject ==
    \E args \in {[projectId |-> p] : p \in 1..Len(projects)} : CallSetCurrentProject(args)

MStoreMemory ==
    /\ Len(memories) < MaxMemories
    /\ \E args \in Opt({[content |-> Content]}, "importance", ImportanceSpace)
                      \cup {[content |-> Content, memoryType |-> "code"]} :
           CallStoreMemory(args, 0)

MUpdateMemoryImportance ==
    \E args \in {[memoryId |-> m, importance |-> i] :
                    m \in {1, GhostId}, i \in ImportanceSpace} :
        CallUpdateMemoryImportance(args)

MGetMemories ==
    \E args \in {NoArgs, [memoryType |-> "code"], [timeRange |-> [start |-> 2]]} :
        CallGetMemories(args)

NextMemory ==
    \/ SwitchProject \/ MStoreMemory \/ MUpdateMemoryImportance \/ MGetMemories

SpecMemory == InitOneProject /\ [][NextMemory]_vars

\* C5: store_memory and update_memory_importance reject an importance outside
\* 1..10 as a validation error; for an importance inside 1..10 the value
\* stored is the value given; store_memory without importance stores 5.
C5_ImportanceValidatedAndExact ==
    [][last'.tool \in {"store_memory", "update_memory_importance"}
          => IF Has(last'.args, "importance")
             THEN IF last'.args.importance \in 1..10
                  THEN last'.outcome = "ok"
                           => memories'[last'.data[1]].importance = last'.args.importance
                  ELSE last'.outcome = "validation" /\ memories' = memories
             ELSE last'.outcome = "ok" => memories'[last'.data[1]].importance = 5]_vars

\* a stored importance of 10 was lowered to 1 by update_memory_importance
C5_Witness ==
    /\ last.tool = "update_memory_importance"
    /\ last.args = [memoryId |-> 1, importance |-> 1]
    /\ last.outcome = "ok"
    /\ memories[1].importance = 1
    /\ Len(memories) >= 2
    /\ memories[2].importance = 10

(***************************************************************************)
(* Search: memories of different embeddings in one project, searched with  *)
(* limits at and around the bounds of the schemas.                         *)
(***************************************************************************)
SStoreMemory ==
    /\ Len(memories) < MaxMemories
    /\ \E e \in Embeddings : CallStoreMemory([content |-> Content], e)

SSearchMemory ==
    \E args \in Opt({[query |-> <<"q">>]}, "limit", LimitSpace), q \in {0, 1} :
        CallSearchMemory(args, q)

NextSearch == SwitchProject \/ SStoreMemory \/ SSearchMemory

SpecSearch == InitOneProject /\ [][NextSearch]_vars

\* C6: search_memory accepts every limit from 1 to 100, rejects every
\* limit outside that range as a validation error, and uses 10 when the
\* limit is omitted.
C6_LimitRange ==
    last.tool = "search_memory"
        => IF Has(last.args, "limit")
           THEN last.outcome = "validation" <=> last.args.limit \notin 1..100
           ELSE last.outcome = "ok" => Len(last.data) <= 10

\* C10: search_memory returns its results in order of non-increasing
\* similarity, and at most limit of them (10 when no limit is given).
C10_ResultsRanked ==
    last.tool = "search_memory" /\ last.outcome = "ok"
        => /\ \A i, j \in 1..Len(last.data) :
                  i < j => last.data[i].similarity >= last.data[j].similarity
           /\ Len(last.data) <= IF Has(last.args, "limit") THEN last.args.limit ELSE 10

\* three memories at three distances from the query, searched with limit 2:
\* the two most similar are returned, the most similar first
C10_Witness ==
    /\ last.tool = "search_memory"
    /\ last.outcome = "ok"
    /\ last.args = [query |-> <<"q">>, limit |-> 2]
    /\ Len(memories) = 3
    /\ memories[1].emb = 2 /\ memories[2].emb = 1 /\ memories[3].emb = 0
    /\ last.data = <<[id |-> 3, similarity |-> 1], [id |-> 2, similarity |-> 0]>>

(***************************************************************************)
(* Tasks and their breakdown, across projects.                             *)
(***************************************************************************)
TCreateProject ==
    /\ Len(projects) < MaxProjects
    /\ \E args \in {[name |-> <<"B">>]} : CallCreateProject(args)

\* a call with a dependency that is no uuid is made of the Direct variant
\* (what the hosted API does with it is not in the repository), on the
\* empty table: it creates no row
TCreateTask ==
    \/ /\ Len(tasks) + 3 < MaxTasks
       /\ \E args \in Opt({[title |-> Title]}, "priority", {"high"}) :
              CallCreateTask(args)
    \/ /\ variant = "Direct"
       /\ tasks = <<>>
       /\ CallCreateTask([title |-> Title, dependencies |-> <<MalformedId>>])

TBreakDownTask ==
    /\ Len(tasks) + 3 <= MaxTasks
    /\ \E args \in {[taskId |-> t] : t \in {1, GhostId}} : CallBreakDownTask(args)

\* a call with an assignee filter returns no row whatever the table holds:
\* it is made on a table of at most one task
TListTasks ==
    \/ \E args \in {NoArgs, [status |-> "pending"], [priority |-> "high"]} :
          CallListTasks(args)
    \/ /\ Len(tasks) <= 1
       /\ CallListTasks([assignee |-> <<"a">>])

TUpdateTaskStatus ==
    \E args \in Opt({[taskId |-> 1, status |-> "completed"]}, "notes", {<<"done">>}) :
        CallUpdateTaskStatus(args)

NextTasks ==
    \/ TCreateProject \/ SwitchProject \/ TCreateTask \/ TBreakDownTask \/ TListTasks
    \/ TUpdateTaskStatus

SpecTasks == Init /\ [][NextTasks]_vars

\* C7: break_down_task(taskId) on an existing task creates exactly three new
\* tasks, each with dependencies [taskId] and parentId taskId.
C7_ThreeChildrenOfTask ==
    [][last'.tool = "break_down_task" /\ last'.outcome = "ok"
          => /\ Len(tasks') = Len(tasks) + 3
             /\ \A k \in (Len(tasks) + 1)..Len(tasks') :
                    /\ tasks'[k].dependencies = <<last'.args.taskId>>
                    /\ tasks'[k].parent = last'.args.taskId]_vars

\* C8: every subtask break_down_task(taskId) creates belongs to the project
\* of the task taskId, whatever was called since that task's creation; the
\* project of the task then holds the task and its three subtasks.
C8_ChildrenInParentProject ==
    [][last'.tool = "break_down_task" /\ last'.outcome = "ok"
          => LET parent == tasks[last'.args.taskId] IN
             /\ \A k \in (Len(tasks) + 1)..Len(tasks') : tasks'[k].project = parent.project
             /\ Cardinality({k \in 1..Len(tasks') : tasks'[k].project = parent.project})
                    = 3 + Cardinality({k \in 1..Len(tasks) : tasks[k].project = parent.project})
      ]_vars

(***************************************************************************)
(* Suggestion: tasks of the three priorities in one project, opened and    *)
(* closed, and the task suggested next.                                    *)
(***************************************************************************)
GCreateTask ==
    /\ Len(tasks) < MaxTasks
    /\ \E args \in Opt({[title |-> Title]}, "priority", PriorityEnum) : CallCreateTask(args)

GUpdateTaskStatus ==
    \E args \in {[taskId |-> t, status |-> s] :
                    t \in 1..Min(2, Len(tasks)), s \in {"in_progress", "completed", "cancelled"}} :
        CallUpdateTaskStatus(args)

GSuggestNextTask == \E args \in {NoArgs} : CallSuggestNextTask(args)

NextSuggest == SwitchProject \/ GCreateTask \/ GUpdateTaskStatus \/ GSuggestNextTask

SpecSuggest == InitOneProject /\ [][NextSuggest]_vars

\* C9: suggest_next_task returns, among the current project's tasks that are
\* pending or in_progress, one of the highest priority present (high over
\* medium over low) and, among those, the earliest created; never a completed
\* or cancelled task; and none when there is no pending or in_progress task.
C9_HighestPriorityEarliest ==
    last.tool = "suggest_next_task" /\ last.outcome = "ok"
        => LET rank(p) == CASE p = "high" -> 3 [] p = "medium" -> 2 [] p = "low" -> 1
               open == {i \in 1..Len(tasks) :
                           /\ tasks[i].project = currentProjectId
                           /\ tasks[i].status \in {"pending", "in_progress"}}
           IN  IF open = {} THEN last.data = <<>>
               ELSE /\ Len(last.data) = 1
                    /\ last.data[1] \in open
                    /\ \A j \in open :
                           \/ rank(tasks[j].priority) < rank(tasks[last.data[1]].priority)
                           \/ /\ tasks[j].priority = tasks[last.data[1]].priority
                              /\ tasks[last.data[1]].created <= tasks[j].created

(***************************************************************************)
(* Further properties of the session's current project.                    *)
(***************************************************************************)
\* C11: resolution is idempotent.  Remote: a store_memory call has run
\* ensureCurrentProject; on the backend behaving as it did in that call (the
\* same requests F failing), and with no set_current_project or
\* create_project in between, the next resolution has the same outcome: it
\* fails if the first failed, and returns the same project if the first
\* returned one.
C11_ResolutionIdempotent ==
    [][\A F \in SUBSET ResolutionReqs :
         LET first == EnsureCurrentProject(F)
         IN  (/\ variant = "Remote"
              /\ last'.tool = "store_memory"
              /\ last'.outcome # "validation"
              /\ currentProjectId' = first.cur
              /\ marker' = first.mark
              /\ (first.ok <=> last'.text # ErrorText(MsgNoProjectAvailable)))
               => LET second == EnsureCurrentProject(F)'
                  IN  /\ second.ok = first.ok
                      /\ first.ok => second.pid = first.pid]_vars

\* C12: a set_current_project(P) call that the schema accepts overwrites the
\* held reference with P, whatever was held before and whatever P is; in the
\* Remote variant it also sends P to the backend as the new marker (the
\* setCurrentProject request).
C12_SetCurrentOverwrites ==
    [][(last'.tool = "set_current_project" /\ last'.outcome # "validation")
          => /\ currentProjectId' = last'.args.projectId
             /\ variant = "Remote" => last'.reqs = <<"setCurrentProject">>]_vars

(***************************************************************************)
(* Properties of the API client and of the startup.                        *)
(***************************************************************************)
\* C13: the outcome of a call of the Remote client depends on the reply
\* alone: whether the tracking requests are pending, succeeded or failed,
\* an ok reply returns its parsed body (or throws for a body that does not
\* parse) and any other reply throws the request's error; and once the
\* tracking request is dispatched the call can return at once, without
\* waiting for it to settle.
C13_TrackingNeverAffectsCall ==
    /\ request.pc = "tracked" => ENABLED ReturnBody
    /\ request.pc = "returned" =>
          request.result =
              IF ~Ok(request.reply) THEN RequestError(request.client, request.reply)
              ELSE IF request.reply.body.parses
              THEN Returned(request.reply.body.value)
              ELSE Thrown(MsgInvalidJson)

\* a call has returned its value while one tracking request had failed
\* and the call's own tracking request had not settled
C13_Witness ==
    /\ request.pc = "returned"
    /\ ~request.result.threw
    /\ Len(tracking) > 1
    /\ tracking[1] = "failed"
    /\ tracking[Len(tracking)] = "pending"

\* C14: the session is established (server.connect) only in a process that
\* found the API key and whose validateKey call succeeded; a process without
\* the key, and a process whose validateKey call threw, exits with status 1;
\* and a process that has exited does nothing more, so it never establishes
\* a session.
C14_SessionOnlyAfterValidation ==
    /\ [](process.session => process.apiKey /\ process.valid)
    /\ (~process.apiKey) ~> (process.pc = "exited" /\ process.code = 1)
    /\ (process.pc = "validating" /\ request.pc = "returned" /\ request.result.threw)
          ~> (process.pc = "exited" /\ process.code = 1 /\ ~process.session)
    /\ [][process.pc = "exited" => process' = process]_vars

\* a process that held the key has exited with status 1, without a session,
\* after its validateKey call threw
C14_Witness ==
    /\ process.pc = "exited"
    /\ process.code = 1
    /\ process.apiKey
    /\ ~process.valid
    /\ ~process.session
    /\ request.result.threw

\* C19: the error the client raises when the request could not be delivered
\* (fetch rejected) is distinguishable from the errors of the replies that
\* were delivered: it differs from the error raised for every response that
\* is not ok and from the error raised for every ok response whose body
\* does not parse.
C19_NetworkErrorDistinct ==
    (request.pc = "returned" /\ request.reply.kind = "rejected")
        => \A r \in Replies :
              /\ (r.kind = "response" /\ ~Ok(r))
                    => request.result # RequestError(request.client, r)
              /\ (r.kind = "response" /\ Ok(r) /\ ~r.body.parses)
                    => request.result # Thrown(MsgInvalidJson)

\* C20: for a response that is not ok the client throws an error whose
\* message is the message of the body, when the body is a JSON object with
\* a non-empty message, and the fallback text built from the HTTP status
\* otherwise: a body that does not parse does not make it a parse error.
C20_ErrorMessageOrFallback ==
    (request.pc = "returned" /\ request.reply.kind = "response" /\ ~Ok(request.reply))
        => LET body == request.reply.body
           IN  /\ request.result.threw
               /\ request.result.message =
                     IF body.parses /\ ~body.value.isNull /\ body.value.message # <<>>
                     THEN body.value.message
                     ELSE Fallback(request.client, request.reply.status)

(***************************************************************************)
(* Further properties of the tasks.                                        *)
(***************************************************************************)
\* C15 (list_tasks): a list_tasks call that succeeds returns only tasks of
\* the current project that match every filter supplied: the status when a
\* status is given, the priority when a priority is given.
C15_ListMatchesEveryFilter ==
    (last.tool = "list_tasks" /\ last.outcome = "ok")
        => \A i \in 1..Len(last.data) :
              LET t == tasks[last.data[i]]
              IN  /\ t.project = currentProjectId
                  /\ Has(last.args, "status") => t.status = last.args.status
                  /\ Has(last.args, "priority") => t.priority = last.args.priority

\* C16: an update_task_status call that succeeds with notes stores the new
\* status and, with it, the note in the task.
C16_NoteStoredWithStatus ==
    [][(/\ last'.tool = "update_task_status"
        /\ last'.outcome = "ok"
        /\ Has(last'.args, "notes"))
          => /\ tasks'[last'.args.taskId].status = last'.args.status
             /\ tasks'[last'.args.taskId].note = last'.args.notes]_vars

(***************************************************************************)
(* Further properties of the memories.                                     *)
(***************************************************************************)
\* C17: a store_memory call that creates a memory stores the content
\* trimmed of its leading and trailing blanks, and a call whose content is
\* empty once trimmed is refused with an error and creates no memory.
C17_ContentTrimmed ==
    [][(last'.tool = "store_memory" /\ last'.outcome # "validation")
          => IF Trim(last'.args.content) = <<>>
             THEN last'.outcome = "error" /\ memories' = memories
             ELSE memories' # memories
                     => memories'[Len(memories')].content = Trim(last'.args.content)]_vars

(***************************************************************************)
(* Project isolation, over the whole catalogue.                            *)
(***************************************************************************)
\* C18: every memory and every task that a call modifies or creates belongs
\* to the session's current project: a call changes no row of another
\* project (update_memory_importance, update_task_status), and every row it
\* adds is a row of the current project, the subtasks of break_down_task
\* being derived from a task of the current project.
C18_ProjectIsolation ==
    [][/\ \A i \in 1..Len(memories) :
             memories'[i] # memories[i] => memories[i].project = currentProjectId'
       /\ \A i \in 1..Len(tasks) :
             tasks'[i] # tasks[i] => tasks[i].project = currentProjectId'
       /\ \A i \in (Len(memories) + 1)..Len(memories') :
             memories'[i].project = currentProjectId'
       /\ \A i \in (Len(tasks) + 1)..Len(tasks') :
             tasks'[i].project = currentProjectId'
       /\ (last'.tool = "break_down_task" /\ tasks' # tasks)
             => tasks[last'.args.taskId].project = currentProjectId']_vars

(***************************************************************************)
(* Properties of the resolution of the current project.                    *)
(***************************************************************************)
\* C21: a resolution ends in the error NoProjectAvailable exactly when there
\* is no project to adopt: a store_memory call on a backend that holds a
\* project never answers with ensureCurrentProject's error, whichever of the
\* backend's requests fail, and on a backend without a project and with no
\* reference held it does.
C21_NoProjectAvailableOnlyWithoutProjects ==
    [][(/\ variant = "Remote"
        /\ last'.tool = "store_memory"
        /\ last'.outcome # "validation")
          => IF projects # <<>>
             THEN last'.text # ErrorText(MsgNoProjectAvailable)
             ELSE currentProjectId = Null
                     => last'.text = ErrorText(MsgNoProjectAvailable)]_vars

\* the tools that resolve the current project before they act
Scoped == {"store_memory", "search_memory", "get_memories", "create_task",
           "list_tasks", "suggest_next_task"}

\* C22: Remote, no reference held: a project-scoped call adopts the project
\* the backend has marked current, when there is one, asking for it only
\* (no listing, no marking); otherwise, when its resolution returns a
\* project, that is the first project of the backend's list, the most
\* recently created one, it is held as the reference and marked current at
\* the backend.
C22_ResolutionOrder ==
    [][(/\ variant = "Remote"
        /\ currentProjectId = Null
        /\ projects # <<>>
        /\ last'.tool \in Scoped
        /\ last'.outcome # "validation")
          => IF marker # Null
             THEN /\ currentProjectId' = marker
                  /\ marker' = marker
                  /\ last'.reqs[1] = "getCurrentProject"
                  /\ \A i \in 1..Len(last'.reqs) :
                        last'.reqs[i] \notin {"listProjects", "setCurrentProject"}
             ELSE last'.text # ErrorText(MsgNoProjectAvailable)
                     => /\ currentProjectId' = Len(projects)
                        /\ marker' = Len(projects)
                        /\ SubSeq(last'.reqs, 1, 3)
                              = <<"getCurrentProject", "listProjects",
                                  "setCurrentProject">>]_vars

\* C23: while a reference is held, a call of any tool but set_current_project
\* and create_project leaves it as it is, and a project-scoped call (the
\* Scoped tools, and get_project_context without projectId) uses exactly the
\* held id: it issues no request to resolve the project, every row it
\* creates is a row of the held project, and every row it returns is one.
C23_HeldReferenceUsed ==
    [][(currentProjectId # Null
          /\ last'.tool \notin {"set_current_project", "create_project"})
          => /\ currentProjectId' = currentProjectId
             /\ (/\ last'.outcome # "validation"
                 /\ \/ last'.tool \in Scoped
                    \/ last'.tool = "get_project_context"
                          /\ ~Has(last'.args, "projectId"))
                   => /\ \A i \in 1..Len(last'.reqs) :
                            /\ last'.reqs[i] \notin {"getCurrentProject", "setCurrentProject"}
                            /\ last'.tool \in Scoped => last'.reqs[i] # "listProjects"
                      /\ \A i \in (Len(memories) + 1)..Len(memories') :
                            memories'[i].project = currentProjectId
                      /\ \A i \in (Len(tasks) + 1)..Len(tasks') :
                            tasks'[i].project = currentProjectId
                      /\ \A i \in 1..Len(last'.data) :
                            CASE last'.tool = "get_memories" ->
                                    memories[last'.data[i]].project = currentProjectId
                              [] last'.tool = "search_memory" ->
                                    memories[last'.data[i].id].project = currentProjectId
                              [] last'.tool \in {"list_tasks", "suggest_next_task"} ->
                                    tasks[last'.data[i]].project = currentProjectId
                              [] last'.tool = "get_project_context" ->
                                    last'.data[i] = currentProjectId
                              [] OTHER -> TRUE]_vars

\* a memory has been stored in the held project, which is not the newest one
C23_Witness ==
    /\ last.tool = "store_memory"
    /\ last.outcome = "ok"
    /\ Len(projects) = 2
    /\ currentProjectId = 1
    /\ memories[Len(memories)].project = 1

(***************************************************************************)
(* SpecRace: calls in flight.  ensureCurrentProject suspends at each await *)
(* and so does the set_current_project handler at its one await; while a   *)
(* call is suspended the steps of the other calls may run.  calls[c] is    *)
(* the resolution of the project-scoped call c, or the set_current_project *)
(* call c:                                                                 *)
(*   pc     idle; getCurrent, list, set (the request is at the backend);   *)
(*          gotCurrent, listed, marked (the backend has answered, the      *)
(*          continuation has not run yet); done (it returned pid); failed  *)
(*          (it threw MsgNoProjectAvailable);                              *)
(*          switching (set_current_project has written the reference, its  *)
(*          request is at the backend), switched (the backend has          *)
(*          answered), returned (the handler has returned its envelope)    *)
(*   ok, value   the backend's last answer: failed or not, and the         *)
(*          projects it carried                                            *)
(*   pid    the project the resolution returns                             *)
(*   reqs   the requests issued; clean: none of them has failed            *)
(***************************************************************************)
\* a faulty adoption, taking the last project of the list:
\* C24_RacingResolutionsConverge does not hold of it
LastOf(list) == list[Len(list)]

\* projects[0].id
FirstOf(list) == list[1]

\* ensureCurrentProject is entered: `if (currentProjectId) return ...`,
\* otherwise apiClient.getCurrentProject() is called
Begin(c) ==
    /\ calls[c].pc = "idle"
    /\ calls' = [calls EXCEPT ![c] =
                    IF currentProjectId # Null
                    THEN [@ EXCEPT !.pc = "done", !.pid = currentProjectId]
                    ELSE [@ EXCEPT !.pc = "getCurrent", !.reqs = <<"getCurrentProject">>]]
    /\ UNCHANGED <<variant, currentProjectId, marker, projects, memories, tasks, last,
                   process, request, tracking>>

\* set_current_project(projectId) is entered: `currentProjectId = projectId`,
\* then apiClient.setCurrentProject(projectId) is called
BeginSwitch(c, projectId) ==
    /\ calls[c].pc = "idle"
    /\ currentProjectId' = projectId
    /\ calls' = [calls EXCEPT ![c] =
                    [@ EXCEPT !.pc = "switching", !.pid = projectId,
                              !.reqs = <<"setCurrentProject">>]]
    /\ UNCHANGED <<variant, marker, projects, memories, tasks, last,
                   process, request, tracking>>

\* the set_current_project handler returns after its await: the envelope
\* `Current project set to: ${projectId}`, or `Error: ${error.message}`
ReturnSwitch(c) ==
    /\ calls[c].pc = "switched"
    /\ calls' = [calls EXCEPT ![c] = [@ EXCEPT !.pc = "returned"]]
    /\ last' = IF calls[c].ok
               THEN [tool |-> "set_current_project", args |-> [projectId |-> calls[c].pid],
                     outcome |-> "ok", text |-> <<"Current", "project", "set", "to">>,
                     reqs |-> calls[c].reqs, data |-> <<calls[c].pid>>]
               ELSE [tool |-> "set_current_project", args |-> [projectId |-> calls[c].pid],
                     outcome |-> "error",
                     text |-> ErrorText(BackendMsg("setCurrentProject")),
                     reqs |-> calls[c].reqs, data |-> <<>>]
    /\ UNCHANGED <<variant, currentProjectId, marker, projects, memories, tasks,
                   process, request, tracking>>

\* the backend answers the request of call c, or the request fails
BackendAnswers(c) ==
    /\ calls[c].pc \in {"getCurrent", "list", "set", "switching"}
    /\ \E ok \in BOOLEAN :
          LET answered(pc, value) ==
                  [calls EXCEPT ![c] = [@ EXCEPT !.pc = pc, !.ok = ok, !.value = value,
                                                 !.clean = @ /\ ok]]
          IN  CASE calls[c].pc = "getCurrent" ->
                      /\ calls' = answered("gotCurrent",
                                     IF ok /\ ApiCurrentProject # Null
                                     THEN <<ApiCurrentProject>> ELSE <<>>)
                      /\ UNCHANGED marker
                [] calls[c].pc = "list" ->
                      /\ calls' = answered("listed", IF ok THEN ApiListProjects ELSE <<>>)
                      /\ UNCHANGED marker
                [] calls[c].pc = "set" ->
                      /\ calls' = answered("marked", <<>>)
                      /\ marker' = IF ok THEN calls[c].pid ELSE marker
                [] calls[c].pc = "switching" ->
                      /\ calls' = answered("switched", <<>>)
                      /\ marker' = IF ok THEN calls[c].pid ELSE marker
    /\ UNCHANGED <<variant, currentProjectId, projects, memories, tasks, last,
                   process, request, tracking>>

\* the continuation of call c runs after its await
Continue(c) ==
    /\ calls[c].pc \in {"gotCurrent", "listed", "marked"}
    /\ LET call == calls[c] IN
       CASE call.pc = "gotCurrent" ->
               IF call.ok /\ call.value # <<>>
               THEN /\ currentProjectId' = FirstOf(call.value)
                    /\ calls' = [calls EXCEPT ![c] =
                                    [@ EXCEPT !.pc = "done", !.pid = FirstOf(call.value)]]
               ELSE /\ calls' = [calls EXCEPT ![c] =
                                    [@ EXCEPT !.pc = "list",
                                              !.reqs = Append(@, "listProjects")]]
                    /\ UNCHANGED currentProjectId
         [] call.pc = "listed" ->
               IF call.ok /\ call.value # <<>>
               THEN /\ currentProjectId' = FirstOf(call.value)
                    /\ calls' = [calls EXCEPT ![c] =
                                    [@ EXCEPT !.pc = "set", !.pid = FirstOf(call.value),
                                              !.reqs = Append(@, "setCurrentProject")]]
               ELSE /\ calls' = [calls EXCEPT ![c] = [@ EXCEPT !.pc = "failed"]]
                    /\ UNCHANGED currentProjectId
         [] call.pc = "marked" ->
               /\ calls' = [calls EXCEPT ![c] =
                               [@ EXCEPT !.pc = IF call.ok THEN "done" ELSE "failed",
                                         !.pid = IF call.ok THEN @ ELSE Null]]
               /\ UNCHANGED currentProjectId
    /\ UNCHANGED <<variant, marker, projects, memories, tasks, last,
                   process, request, tracking>>

InitRace ==
    /\ variant = "Remote"
    /\ currentProjectId = Null
    /\ projects \in ProjectTables(MaxProjects)
    /\ marker \in {Null} \cup (1..Len(projects))
    /\ memories = <<>>
    /\ tasks = <<>>
    /\ last = NoCall
    /\ Serving

NextRace ==
    \/ \E c \in 1..MaxCalls : Begin(c)
    \/ \E c \in 1..MaxCalls : BackendAnswers(c)
    \/ \E c \in 1..MaxCalls : Continue(c)
    \/ \E c \in 1..MaxCalls, p \in 1..Len(projects) : BeginSwitch(c, p)
    \/ \E c \in 1..MaxCalls : ReturnSwitch(c)

SpecRace == InitRace /\ [][NextRace]_vars

\* leave the reference P.
C30_SuspendedResolutionKeepsReference ==
    [][(/\ \E s \in 1..MaxCalls :
              /\ calls[s].pc \in {"switching", "switched", "returned"}
              /\ calls[s].pid = currentProjectId
        /\ \A c \in 1..MaxCalls : calls'[c].pc = "switching" => calls[c].pc = "switching")
          => currentProjectId' = currentProjectId]_vars

(***************************************************************************)
(* SpecShape: the shapes of the backend's replies (Remote).  The hosted    *)
(* API answers with an entity or a list either bare or wrapped under a     *)
(* named field ({memory: {...}}, {memories: [...]}); each handler reads    *)
(* the reply in its own way.  A reply is a JSON value: its kind, its shape *)
(* and the ids of its rows (one id for an entity).  A call resolves the    *)
(* current project where its handler does, issues the tool's request and   *)
(* renders the reply; the reply is drawn, the tables stand as they are.    *)
(***************************************************************************)
MaxRows == 2

Shapes == {"bare", "wrapped"}

RowLists == UNION {[1..n -> 1..MaxRows] : n \in 0..MaxRows}

EntityReplies == [kind : {"entity"}, shape : Shapes, rows : {<<i>> : i \in 1..MaxRows}]

ListReplies == [kind : {"list"}, shape : Shapes, rows : RowLists]

Undefined == [kind |-> "undefined", shape |-> "bare", rows |-> <<>>]

\* response.memory, response.projects, ...: the named field of the reply
Named(response) ==
    IF response.shape = "wrapped" THEN [response EXCEPT !.shape = "bare"] ELSE Undefined

\* value || response (an object and an array, also an empty one, are truthy)
OrSelf(value, response) == IF value = Undefined THEN response ELSE value

\* value.id: undefined (Null) on anything but the entity itself
IdOf(value) ==
    IF value.kind = "entity" /\ value.shape = "bare" THEN value.rows[1] ELSE Null

\* whether value.map, value.slice, value.find are functions
IsArray(value) == value.kind = "list" /\ value.shape = "bare"

MsgNotAFunction == <<"is", "not", "a", "function">>

Rendering(outcome, text, data) == [outcome |-> outcome, text |-> text, data |-> data]

\* the rows of an array rendered one by one; a TypeError on anything else,
\* caught by the handler's catch
RenderedRows(list, n) ==
    IF IsArray(list)
    THEN Rendering("ok", <<"rows">>, SubSeq(list.rows, 1, Min(n, Len(list.rows))))
    ELSE Rendering("error", ErrorText(MsgNotAFunction), <<>>)

\* what a handler makes of the reply of its request
Rendered(tool, response) ==
    CASE tool \in {"store_memory", "update_memory_importance", "update_task_status"}
           -> Rendering("ok", <<"ID">>, <<IdOf(response)>>)
      [] tool \in {"create_project", "create_task"}
           -> Rendering("ok", <<"ID">>, <<IdOf(OrSelf(Named(response), response))>>)
      [] tool = "get_current_project"
           -> LET project == Named(response)
              IN  IF project = Undefined
                  THEN Rendering("ok", MsgNoProjectSelected, <<>>)
                  ELSE Rendering("ok", <<"ID">>, <<IdOf(project)>>)
      [] tool \in {"search_memory", "get_memories", "list_projects", "list_tasks"}
           -> RenderedRows(OrSelf(Named(response), response), MaxRows)
      [] tool = "get_project_context"
           -> RenderedRows(response, Min(5, MaxRows))
      [] tool \in {"suggest_next_task", "break_down_task"}
           -> Rendering("ok", <<"json", response.shape>>, response.rows)

EntityTools == {"store_memory", "update_memory_importance", "update_task_status",
                "create_project", "create_task", "get_current_project",
                "suggest_next_task"}

ListTools == {"search_memory", "get_memories", "list_projects", "list_tasks",
              "get_project_context", "break_down_task"}

\* the requests a handler issues once it has its project: the method of
\* apiClient it calls (three of them in get_project_context)
RequestsOf(tool) ==
    CASE tool = "store_memory" -> <<"storeMemory">>
      [] tool = "search_memory" -> <<"searchMemory">>
      [] tool = "get_memories" -> <<"getMemories">>
      [] tool = "update_memory_importance" -> <<"updateMemoryImportance">>
      [] tool = "create_project" -> <<"createProject">>
      [] tool = "get_current_project" -> <<"getCurrentProject">>
      [] tool = "list_projects" -> <<"listProjects">>
      [] tool = "get_project_context" -> <<"listProjects", "getMemories", "listTasks">>
      [] tool = "create_task" -> <<"createTask">>
      [] tool = "list_tasks" -> <<"listTasks">>
      [] tool = "update_task_status" -> <<"updateTaskStatus">>
      [] tool = "suggest_next_task" -> <<"suggestNextTask">>
      [] tool = "break_down_task" -> <<"breakDownTask">>

\* a call of the tool: the handler of a project-scoped tool, and that of
\* get_project_context called without projectId, resolves the project
\* (answering with ensureCurrentProject's error, and issuing no request of
\* its own, when that fails), then receives the reply of its request and
\* renders it; in get_project_context the reply is that of getMemories and
\* of listTasks
Render(tool, response) ==
    LET r == IF tool \in Scoped \cup {"get_project_context"}
             THEN EnsureCurrentProject({})
             ELSE Resolution(TRUE, Null, currentProjectId, marker, <<>>)
        rendered == Rendered(tool, response)
    IN  IF ~r.ok
        THEN ResolutionFailed(tool, [response |-> response], r)
        ELSE /\ Resolved(r)
             /\ Respond(tool, [response |-> response], rendered.outcome, rendered.text,
                        r.reqs \o RequestsOf(tool), rendered.data)
             /\ UNCHANGED <<variant, projects, memories, tasks>>

RenderEntity == \E tool \in EntityTools, response \in EntityReplies : Render(tool, response)

RenderList == \E tool \in ListTools, response \in ListReplies : Render(tool, response)

\* a session with or without a reference, over a backend with or without
\* projects and a marker
InitShape ==
    /\ variant = "Remote"
    /\ projects \in ProjectTables(MaxProjects)
    /\ currentProjectId \in {Null} \cup (1..Len(projects))
    /\ marker \in {Null} \cup (1..Len(projects))
    /\ memories = <<>>
    /\ tasks = <<>>
    /\ last = NoCall
    /\ Serving

NextShape == RenderEntity \/ RenderList

SpecShape == InitShape /\ [][NextShape]_vars

\* the same reply in the other shape
Reshaped(response) ==
    [response EXCEPT !.shape = IF response.shape = "bare" THEN "wrapped" ELSE "bare"]

\* C25: every Remote tool whose request the backend has answered renders
\* the reply the same whether the backend sent the entity or list bare or
\* wrapped under its named field, and the wrapped form never yields an
\* undefined field or an error envelope.
C25_ShapeIndependentRendering ==
    (/\ last.tool \in EntityTools \cup ListTools
     /\ last.text # ErrorText(MsgNoProjectAvailable))
       => /\ Rendering(last.outcome, last.text, last.data)
               = Rendered(last.tool, Reshaped(last.args.response))
          /\ last.args.response.shape = "wrapped"
               => /\ last.outcome = "ok"
                  /\ \A i \in 1..Len(last.data) : last.data[i] # Null

(***************************************************************************)
(* Properties of the usage tracking.                                       *)
(***************************************************************************)
\* C26: the step of request() that receives the reply of a backend request
\* dispatches exactly one tracking request when the reply is a response
\* with a 2xx status and none when it is another status or a transport
\* failure; no other step dispatches one, so the settling of a tracking
\* request is never tracked itself.
C26_OneTrackingPerSuccess ==
    [][IF request.pc = "sent" /\ request'.pc # "sent"
       THEN IF request.reply.kind = "response" /\ request.reply.status \in 200..299
            THEN /\ Len(tracking') = Len(tracking) + 1
                 /\ tracking'[Len(tracking')] = "pending"
                 /\ SubSeq(tracking', 1, Len(tracking)) = tracking
            ELSE tracking' = tracking
       ELSE Len(tracking') = Len(tracking)]_vars

\* a first request was answered 200 and tracked once, its tracking request
\* failed, and a second request answered 500 has thrown, untracked
C26_Witness ==
    /\ request.pc = "returned"
    /\ request.reply.status = 500
    /\ request.result.threw
    /\ tracking = <<"failed">>

(***************************************************************************)
(* Properties of the held reference when a call fails.                     *)
(***************************************************************************)
\* C27: Remote, no reference held: when the resolution of a project-scoped
\* call fails (the call answers with ensureCurrentProject's error), the
\* reference is still unset after the call, so the next call resolves again.
C27_FailedResolutionLeavesUnset ==
    [][(/\ variant = "Remote"
        /\ currentProjectId = Null
        /\ last'.tool \in Scoped
        /\ last'.outcome = "error"
        /\ last'.text = ErrorText(MsgNoProjectAvailable))
          => /\ currentProjectId' = Null
             /\ EnsureCurrentProject({})'.reqs # <<>>]_vars

\* C28: a set_current_project call answered with an error envelope leaves
\* the held reference as it was before the call.
C28_FailedSwitchKeepsReference ==
    [][(last'.tool = "set_current_project" /\ last'.outcome = "error")
          => currentProjectId' = currentProjectId]_vars

\* C29: Remote: between tool calls a held reference is the project the
\* backend has marked current, and get_current_project reports that project.
C29_ReferenceIsBackendMarker ==
    (variant = "Remote" /\ currentProjectId # Null)
       => /\ currentProjectId = marker
          /\ (last.tool = "get_current_project" /\ last.outcome = "ok")
                => last.data = <<currentProjectId>>

====
